---- MODULE Spec2Model ----
(***************************************************************************)
(* Branch dependency analysis: the analysis-result domain model, the JSON  *)
(* repository, the in-memory cache and the analysis service, as a state    *)
(* machine.  Strings are sequences of one-character strings, so that       *)
(* strip(), lower() and the substring test are computed, not assumed.      *)
(***************************************************************************)
EXTENDS Integers, Sequences, FiniteSets, TLC

\* ------------------------------------------------------------------ bounds
MaxFiles == 2
MaxDeps == 2
MaxQueryLen == 3
MaxTime == 2

\* ------------------------------------------------- Python values: Optional
None == [isnone |-> TRUE]
Some(v) == [some |-> v]
IsNone(o) == "isnone" \in DOMAIN o

\* ------------------------------------------------------ Python str methods
Whitespace == {" "}

LowerChar(c) == CASE c = "A" -> "a" [] c = "B" -> "b" [] OTHER -> c

lower(s) == [i \in 1..Len(s) |-> LowerChar(s[i])]

RECURSIVE lstrip(_)
lstrip(s) == IF s # <<>> /\ Head(s) \in Whitespace THEN lstrip(Tail(s)) ELSE s

RECURSIVE rstrip(_)
rstrip(s) ==
    IF s # <<>> /\ s[Len(s)] \in Whitespace
    THEN rstrip(SubSeq(s, 1, Len(s) - 1))
    ELSE s

strip(s) == rstrip(lstrip(s))

\* needle in hay
Contains(needle, hay) ==
    \E i \in 0..(Len(hay) - Len(needle)) :
        SubSeq(hay, i + 1, i + Len(needle)) = needle

Reverse(s) == [i \in 1..Len(s) |-> s[Len(s) + 1 - i]]

Min(a, b) == IF a <= b THEN a ELSE b

Max(a, b) == IF a >= b THEN a ELSE b

RECURSIVE SumSeq(_)
SumSeq(s) == IF s = <<>> THEN 0 ELSE Head(s) + SumSeq(Tail(s))

\* ------------------------------------------------------------ domain model
DependencyType ==
    {"instantiation", "static_call", "type_hint", "use_statement",
     "instanceof", "class_constant", "class_reference"}

\* Dependency.__post_init__: the error its construction raises, or "none"
Dependency_post_init(type, line, context) ==
    IF line < 0 THEN "ValueError"
    ELSE IF strip(context) = <<>> THEN "ValueError"
    ELSE "none"

Dependency_to_dict(dep) ==
    [type |-> dep.type, line |-> dep.line, context |-> dep.context,
     details |-> dep.details]

\* the dict {}
EmptyDetails == [k \in {} |-> None]

\* Dependency.from_dict: the error raised, or "none"
Dependency_from_dict_error(data) ==
    IF "type" \notin DOMAIN data THEN "KeyError"
    ELSE IF data.type \notin DependencyType THEN "ValueError"
    ELSE IF "line" \notin DOMAIN data \/ "context" \notin DOMAIN data THEN "KeyError"
    ELSE Dependency_post_init(data.type, data.line, data.context)

\* Dependency.from_dict: the value built when no error is raised
Dependency_from_dict(data) ==
    [type |-> data.type, line |-> data.line, context |-> data.context,
     details |-> IF "details" \in DOMAIN data THEN data.details ELSE EmptyDetails]

total_dependencies(f) == Len(f.dependencies)

has_dependencies(f) == total_dependencies(f) > 0

\* FileAnalysis.get_dependencies_by_type
FileAnalysis_get_dependencies_by_type(f, dep_type) ==
    LET IsType(dep) == dep.type = dep_type
    IN SelectSeq(f.dependencies, IsType)

FileAnalysis_post_init(file_path, relative_path) ==
    IF strip(file_path) = <<>> THEN "ValueError"
    ELSE IF strip(relative_path) = <<>> THEN "ValueError"
    ELSE "none"

FileAnalysis_to_dict(f) ==
    [file_path |-> f.file_path,
     relative_path |-> f.relative_path,
     dependencies |-> [i \in 1..Len(f.dependencies) |-> Dependency_to_dict(f.dependencies[i])],
     total_dependencies |-> total_dependencies(f),
     error |-> f.error]

FileDictDeps(data) == IF "dependencies" \in DOMAIN data THEN data.dependencies ELSE <<>>

\* FileAnalysis.from_dict: the error raised, or "none"
FileAnalysis_from_dict_error(data) ==
    LET deps == FileDictDeps(data)
        bad == {i \in 1..Len(deps) : Dependency_from_dict_error(deps[i]) # "none"}
    IN IF bad # {}
       THEN Dependency_from_dict_error(deps[CHOOSE i \in bad : \A j \in bad : i <= j])
       ELSE IF "file_path" \notin DOMAIN data THEN "KeyError"
       ELSE FileAnalysis_post_init(
                data.file_path,
                IF "relative_path" \in DOMAIN data THEN data.relative_path ELSE data.file_path)

\* FileAnalysis.from_dict that forgets the error field
FileAnalysis_from_dict_without_error(data) ==
    LET deps == FileDictDeps(data)
    IN [file_path |-> data.file_path,
        relative_path |-> IF "relative_path" \in DOMAIN data
                          THEN data.relative_path ELSE data.file_path,
        dependencies |-> [i \in 1..Len(deps) |-> Dependency_from_dict(deps[i])],
        error |-> None]

FileAnalysis_from_dict(data) ==
    LET deps == FileDictDeps(data)
    IN [file_path |-> data.file_path,
        relative_path |-> IF "relative_path" \in DOMAIN data
                          THEN data.relative_path ELSE data.file_path,
        dependencies |-> [i \in 1..Len(deps) |-> Dependency_from_dict(deps[i])],
        error |-> IF "error" \in DOMAIN data THEN data.error ELSE None]

AnalysisMetadata_post_init(m) ==
    IF m.analysis_time_seconds < 0 THEN "ValueError"
    ELSE IF m.total_files_analyzed < 0 THEN "ValueError"
    ELSE "none"

AnalysisMetadata_to_dict(m) ==
    [timestamp |-> m.timestamp,
     analysis_time_seconds |-> m.analysis_time_seconds,
     base_path |-> m.base_path,
     analyzed_folders |-> m.analyzed_folders,
     excluded_folders |-> m.excluded_folders,
     total_files_analyzed |-> m.total_files_analyzed]

DictGet(data, key, default) == IF key \in DOMAIN data THEN data[key] ELSE default

AnalysisMetadata_from_dict(data) ==
    [timestamp |-> DictGet(data, "timestamp", <<>>),
     analysis_time_seconds |-> DictGet(data, "analysis_time_seconds", 0),
     base_path |-> DictGet(data, "base_path", ""),
     analyzed_folders |-> DictGet(data, "analyzed_folders", <<>>),
     excluded_folders |-> DictGet(data, "excluded_folders", <<>>),
     total_files_analyzed |-> DictGet(data, "total_files_analyzed", 0)]

AnalysisResult_to_dict(r) ==
    [files |-> [i \in 1..Len(r.files) |-> FileAnalysis_to_dict(r.files[i])],
     analysis_metadata |-> AnalysisMetadata_to_dict(r.metadata)]

ResultDictFiles(data) == IF "files" \in DOMAIN data THEN data.files ELSE <<>>

ResultDictMeta(data) ==
    IF "analysis_metadata" \in DOMAIN data THEN data.analysis_metadata
    ELSE <<>>

\* AnalysisResult.from_dict: the error raised, or "none"
AnalysisResult_from_dict_error(data) ==
    LET fs == ResultDictFiles(data)
        bad == {i \in 1..Len(fs) : FileAnalysis_from_dict_error(fs[i]) # "none"}
    IN IF bad # {}
       THEN FileAnalysis_from_dict_error(fs[CHOOSE i \in bad : \A j \in bad : i <= j])
       ELSE AnalysisMetadata_post_init(AnalysisMetadata_from_dict(ResultDictMeta(data)))

AnalysisResult_from_dict(data) ==
    LET fs == ResultDictFiles(data)
    IN [files |-> [i \in 1..Len(fs) |-> FileAnalysis_from_dict(fs[i])],
        metadata |-> AnalysisMetadata_from_dict(ResultDictMeta(data))]

total_files(r) == Len(r.files)

files_with_dependencies(r) == SelectSeq(r.files, has_dependencies)

AnalysisResult_total_dependencies(r) ==
    SumSeq([i \in 1..Len(r.files) |-> total_dependencies(r.files[i])])

\* all dependencies of the result, file by file
RECURSIVE AllDependencies(_)
AllDependencies(files) ==
    IF files = <<>> THEN <<>>
    ELSE Head(files).dependencies \o AllDependencies(Tail(files))

\* dependency_type_distribution: the dict built by the double loop
RECURSIVE CountInto(_, _)
CountInto(distribution, deps) ==
    IF deps = <<>> THEN distribution
    ELSE LET dep_type == Head(deps).type
             old == IF dep_type \in DOMAIN distribution THEN distribution[dep_type] ELSE 0
         IN CountInto(
                [t \in DOMAIN distribution \cup {dep_type} |->
                    IF t = dep_type THEN old + 1 ELSE distribution[t]],
                Tail(deps))

EmptyDict == [t \in {} |-> 0]

dependency_type_distribution(r) == CountInto(EmptyDict, AllDependencies(r.files))

\* list.sort: a stable insertion of x after every element whose key is <= its own
RECURSIVE InsertAsc(_, _)
InsertAsc(sorted, x) ==
    IF sorted = <<>> THEN <<x>>
    ELSE IF total_dependencies(sorted[Len(sorted)]) <= total_dependencies(x)
         THEN Append(sorted, x)
         ELSE Append(InsertAsc(SubSeq(sorted, 1, Len(sorted) - 1), x), sorted[Len(sorted)])

RECURSIVE SortAsc(_)
SortAsc(s) ==
    IF s = <<>> THEN <<>>
    ELSE InsertAsc(SortAsc(SubSeq(s, 1, Len(s) - 1)), s[Len(s)])

\* sorted(s, key=total_dependencies)[::-1]: descending, but ties come out reversed
sorted_by_total_reversed_ties(s) == Reverse(SortAsc(s))

\* sorted(s, key=total_dependencies, reverse=True): reverse, stable sort, reverse
sorted_by_total_desc(s) == Reverse(SortAsc(Reverse(s)))

\* AnalysisResult.get_hotspots
get_hotspots(r, limit) ==
    LET sorted_files == sorted_by_total_desc(files_with_dependencies(r))
    IN SubSeq(sorted_files, 1, Min(limit, Len(sorted_files)))

\* search_files that scans every file, not only those with dependencies
search_files_all_files(r, query) ==
    IF Len(strip(query)) < 2 THEN <<>>
    ELSE LET query_lower == lower(query)
             Matches(f) ==
                 \/ Contains(query_lower, lower(f.relative_path))
                 \/ \E i \in 1..Len(f.dependencies) :
                        Contains(query_lower, lower(f.dependencies[i].context))
         IN SelectSeq(r.files, Matches)

\* AnalysisResult.search_files
search_files(r, query) ==
    IF Len(strip(query)) < 2 THEN <<>>
    ELSE LET query_lower == lower(query)
             Matches(f) ==
                 \/ Contains(query_lower, lower(f.relative_path))
                 \/ \E i \in 1..Len(f.dependencies) :
                        Contains(query_lower, lower(f.dependencies[i].context))
         IN SelectSeq(files_with_dependencies(r), Matches)

\* from_analysis_result that counts every file as a file with dependencies
SummaryStatistics_counting_every_file(r) ==
    [total_files |-> total_files(r),
     files_with_dependencies |-> total_files(r),
     total_dependencies |-> AnalysisResult_total_dependencies(r),
     dependency_type_counts |-> dependency_type_distribution(r),
     analysis_metadata |-> AnalysisMetadata_to_dict(r.metadata)]

\* SummaryStatistics.from_analysis_result
SummaryStatistics_from_analysis_result(r) ==
    [total_files |-> total_files(r),
     files_with_dependencies |-> Len(files_with_dependencies(r)),
     total_dependencies |-> AnalysisResult_total_dependencies(r),
     dependency_type_counts |-> dependency_type_distribution(r),
     analysis_metadata |-> AnalysisMetadata_to_dict(r.metadata)]

\* -------------------------------------------------- StandardValidationService
MIN_SEARCH_QUERY_LENGTH == 0
MAX_SEARCH_QUERY_LENGTH == 100
MIN_LIMIT == 1
MAX_LIMIT == 1000
MAX_FILE_PATH_LENGTH == 1000

\* call arguments as Python passes them: a str or some other object
StrArg(s) == [isstr |-> TRUE, s |-> s]
NonStrArg == [isstr |-> FALSE, s |-> <<>>]
IntArg(n) == [isint |-> TRUE, n |-> n]
NonIntArg == [isint |-> FALSE, n |-> 0]
\* dep_type: a DependencyType member ("enum"), another object with a .value
\* attribute ("object"), or a plain str, which has no .value ("str")
TypeArg(kind, value) == [kind |-> kind, value |-> value]

\* a validator with the domain layer's minimum of two characters
validate_search_query_min_two(query) ==
    IF ~query.isstr THEN FALSE
    ELSE LET query_length == Len(strip(query.s))
         IN 2 <= query_length /\ query_length <= MAX_SEARCH_QUERY_LENGTH

validate_search_query(query) ==
    IF ~query.isstr THEN FALSE
    ELSE LET query_length == Len(strip(query.s))
         IN MIN_SEARCH_QUERY_LENGTH <= query_length /\ query_length <= MAX_SEARCH_QUERY_LENGTH

validate_limit_parameter(limit) ==
    IF ~limit.isint THEN FALSE
    ELSE MIN_LIMIT <= limit.n /\ limit.n <= MAX_LIMIT

VALID_DEPENDENCY_TYPES == DependencyType

\* validate_dependency_type(value): value is what dep_type.value evaluated to
validate_dependency_type(value) == value \in VALID_DEPENDENCY_TYPES

validate_file_path(file_path) ==
    IF ~file_path.isstr THEN FALSE
    ELSE LET stripped_path == strip(file_path.s)
         IN 0 < Len(stripped_path) /\ Len(stripped_path) < MAX_FILE_PATH_LENGTH

\* ------------------------------------------ what a service call hands back
\* return values, one record shape per operation
RetStats(s) == [stats |-> s]
RetFiles(fs) == [files |-> fs]
RetEntries(es) == [entries |-> es]
RetFile(f) == [file |-> f]
RetNone == [none |-> TRUE]

\* the loop with each entry annotated by the file's absolute path
RECURSIVE dependencies_of_type_by_file_path(_, _)
dependencies_of_type_by_file_path(files, dep_type) ==
    IF files = <<>> THEN <<>>
    ELSE LET file_analysis == Head(files)
             file_deps == FileAnalysis_get_dependencies_by_type(file_analysis, dep_type)
         IN [i \in 1..Len(file_deps) |->
                [type |-> file_deps[i].type, line |-> file_deps[i].line,
                 context |-> file_deps[i].context, details |-> file_deps[i].details,
                 file |-> file_analysis.file_path]]
            \o dependencies_of_type_by_file_path(Tail(files), dep_type)

\* the loop of get_dependencies_by_type over analysis_result.files
RECURSIVE dependencies_of_type(_, _)
dependencies_of_type(files, dep_type) ==
    IF files = <<>> THEN <<>>
    ELSE LET file_analysis == Head(files)
             file_deps == FileAnalysis_get_dependencies_by_type(file_analysis, dep_type)
         IN [i \in 1..Len(file_deps) |->
                [type |-> file_deps[i].type, line |-> file_deps[i].line,
                 context |-> file_deps[i].context, details |-> file_deps[i].details,
                 file |-> file_analysis.relative_path]]
            \o dependencies_of_type(Tail(files), dep_type)

\* the loop of get_file_analysis that compares relative_path only
find_file_relative_only(files, file_path) ==
    LET hits == {i \in 1..Len(files) : files[i].relative_path = file_path}
    IN IF hits = {} THEN RetNone
       ELSE RetFile(files[CHOOSE i \in hits : \A j \in hits : i <= j])

\* the loop of get_file_analysis: the first file with either path equal
find_file(files, file_path) ==
    LET hits == {i \in 1..Len(files) :
                    \/ files[i].relative_path = file_path
                    \/ files[i].file_path = file_path}
    IN IF hits = {} THEN RetNone
       ELSE RetFile(files[CHOOSE i \in hits : \A j \in hits : i <= j])

\* ------------------------------------------------------------------- state
VARIABLES
    now,               \* the wall clock read by time.time() and datetime.now()
    disk,              \* the JSON document: kind, data, mtime
    cfg,               \* the wiring: cache collaborator, metrics collector, max_size,
                       \* and the query operations the client of this run calls
    cache,             \* InMemoryCacheService.cache, in dict order: <<[key, value]>>
    access_times,      \* InMemoryCacheService.access_times, in dict order: <<[key, time]>>
    analysis_result,   \* BranchDependencyAnalysisService._analysis_result
    last_loaded_time,  \* BranchDependencyAnalysisService._last_loaded_time
    metrics,           \* SimpleMetricsCollector's four dicts
    call               \* the last operation: name, argument, outcome, returned value

vars == <<now, disk, cfg, cache, access_times, analysis_result, last_loaded_time,
          metrics, call>>

\* ------------------------------------------------ Python dicts, in key order
DictKeys(d) == {d[i].key : i \in 1..Len(d)}

DictHas(d, key) == key \in DictKeys(d)

DictIndex(d, key) == CHOOSE i \in 1..Len(d) : d[i].key = key

DictPut(d, entry) ==
    IF DictHas(d, entry.key) THEN [d EXCEPT ![DictIndex(d, entry.key)] = entry]
    ELSE Append(d, entry)

DictDel(d, key) ==
    LET Other(e) == e.key # key
    IN SelectSeq(d, Other)

\* ----------------------------------------------------- InMemoryCacheService
\* c is the pair of dicts [cache, access_times]; t is datetime.now()
InMemoryCacheService_get(c, key, t) ==
    IF DictHas(c.cache, key)
    THEN [c EXCEPT !.access_times = DictPut(@, [key |-> key, time |-> t])]
    ELSE c

\* the value get returns: None for a key that is not stored
InMemoryCacheService_value(c, key) ==
    IF DictHas(c.cache, key) THEN Some(c.cache[DictIndex(c.cache, key)].value) ELSE None

InMemoryCacheService_delete(c, key) ==
    IF DictHas(c.cache, key)
    THEN [cache |-> DictDel(c.cache, key), access_times |-> DictDel(c.access_times, key)]
    ELSE c

\* a choice of the most recently accessed key instead of the least
mru_key(times) ==
    times[CHOOSE i \in 1..Len(times) :
            /\ \A j \in 1..Len(times) : times[i].time >= times[j].time
            /\ \A j \in 1..(i - 1) : times[j].time < times[i].time].key

\* min(access_times.keys(), key=...): the first key, in dict order, of least time
lru_key(times) ==
    times[CHOOSE i \in 1..Len(times) :
            /\ \A j \in 1..Len(times) : times[i].time <= times[j].time
            /\ \A j \in 1..(i - 1) : times[j].time > times[i].time].key

InMemoryCacheService_evict_lru(c) ==
    IF c.access_times = <<>> THEN c
    ELSE InMemoryCacheService_delete(c, lru_key(c.access_times))

InMemoryCacheService_set(c, key, value, t, max_size) ==
    LET room == IF Len(c.cache) >= max_size /\ ~DictHas(c.cache, key)
                THEN InMemoryCacheService_evict_lru(c)
                ELSE c
    IN [cache |-> DictPut(room.cache, [key |-> key, value |-> value]),
        access_times |-> DictPut(room.access_times, [key |-> key, time |-> t])]

InMemoryCacheService_clear(c) == [cache |-> <<>>, access_times |-> <<>>]

\* ---------- the cache collaborator as wired: InMemoryCacheService, NullCacheService
\* or no collaborator at all (cache_service=None)
cache_get(c, key, t) ==
    IF cfg.cache = "memory" THEN InMemoryCacheService_get(c, key, t) ELSE c

cache_value(c, key) ==
    IF cfg.cache = "memory" THEN InMemoryCacheService_value(c, key) ELSE None

cache_set(c, key, value, t) ==
    IF cfg.cache = "memory" THEN InMemoryCacheService_set(c, key, value, t, cfg.max_size)
    ELSE c

cache_delete(c, key) ==
    IF cfg.cache = "memory" THEN InMemoryCacheService_delete(c, key) ELSE c

cache_clear(c) ==
    IF cfg.cache = "memory" THEN InMemoryCacheService_clear(c) ELSE c

\* ------------------------------------------------ cache keys (the f-strings)
Digits == <<"0", "1", "2", "3", "4", "5", "6", "7", "8", "9">>

RECURSIVE Decimal(_)
Decimal(n) ==
    IF n < 10 THEN <<Digits[n + 1]>>
    ELSE Decimal(n \div 10) \o <<Digits[(n % 10) + 1]>>

FileName == "branch_dependencies.json"

repository_cache_key == <<"analysis_result_", FileName>>

summary_cache_key == <<"summary_statistics">>

\* a hotspots key that leaves the limit out
hotspots_cache_key_without_limit(limit) == <<"hotspots_">>

hotspots_cache_key(limit) == <<"hotspots_">> \o Decimal(limit)

dependencies_cache_key(value) == <<"dependencies_by_type_", value>>

\* ------------------------------------------------ JsonAnalysisDataRepository
strftime(t) == <<t>>

create_empty_result(t) ==
    [files |-> <<>>,
     metadata |-> [timestamp |-> strftime(t), analysis_time_seconds |-> 0,
                   base_path |-> "", analyzed_folders |-> <<>>,
                   excluded_folders |-> <<>>, total_files_analyzed |-> 0]]

exists == disk.kind # "missing"

\* the mock repository (its document is the test data it holds) reports the
\* current time
get_last_modified ==
    IF disk.kind = "mock" THEN Some(now)
    ELSE IF exists THEN Some(disk.mtime) ELSE None

\* load_analysis_result: [c: the cache afterwards, err: "none" or the error
\* raised, val: the result returned when err is "none"]
load_analysis_result(c, t) ==
    LET cached_result == cache_value(c, repository_cache_key)
    IN IF disk.kind = "mock"
       THEN [c |-> c, err |-> "none", val |-> AnalysisResult_from_dict(disk.data)]
       ELSE IF ~IsNone(cached_result)
       THEN [c |-> cache_get(c, repository_cache_key, t), err |-> "none",
             val |-> cached_result.some.result]
       ELSE IF ~exists
       THEN [c |-> c, err |-> "none", val |-> create_empty_result(t)]
       ELSE IF disk.kind = "invalid_json"
       THEN [c |-> c, err |-> "RepositoryError", val |-> create_empty_result(t)]
       ELSE IF disk.kind = "json_array"
       THEN \* data.get on a list: AttributeError, which no except clause names
            [c |-> c, err |-> "AttributeError", val |-> create_empty_result(t)]
       ELSE IF AnalysisResult_from_dict_error(disk.data) # "none"
       THEN [c |-> c, err |-> "RepositoryError", val |-> create_empty_result(t)]
       ELSE LET result == AnalysisResult_from_dict(disk.data)
            IN [c |-> cache_set(c, repository_cache_key, [result |-> result], t),
                err |-> "none", val |-> result]

\* ----------------------------------------------------- SimpleMetricsCollector
NoMetrics ==
    [operation_times |-> <<>>, cache_hits |-> <<>>, cache_misses |-> <<>>,
     errors |-> <<>>]

Count(d, key) == IF DictHas(d, key) THEN d[DictIndex(d, key)].value ELSE 0

record_analysis_time(m, operation, duration_seconds) ==
    IF ~cfg.metrics THEN m
    ELSE LET old == IF DictHas(m.operation_times, operation)
                    THEN m.operation_times[DictIndex(m.operation_times, operation)].value
                    ELSE <<>>
         IN [m EXCEPT !.operation_times =
                DictPut(@, [key |-> operation, value |-> Append(old, duration_seconds)])]

record_cache_hit(m, key) ==
    IF ~cfg.metrics THEN m
    ELSE [m EXCEPT !.cache_hits = DictPut(@, [key |-> key, value |-> Count(@, key) + 1])]

record_cache_miss(m, key) ==
    IF ~cfg.metrics THEN m
    ELSE [m EXCEPT !.cache_misses = DictPut(@, [key |-> key, value |-> Count(@, key) + 1])]

\* record_error that also counts the error a second time, under the wrapper's name
record_error_twice(m, operation, error_type) ==
    IF ~cfg.metrics THEN m
    ELSE [m EXCEPT !.errors =
            DictPut(@, [key |-> <<operation, error_type>>,
                        value |-> Count(@, <<operation, error_type>>) + 2])]

\* errors[operation][error_type] += 1; the nested dict is keyed by the pair
record_error(m, operation, error_type) ==
    IF ~cfg.metrics THEN m
    ELSE [m EXCEPT !.errors =
            DictPut(@, [key |-> <<operation, error_type>>,
                        value |-> Count(@, <<operation, error_type>>) + 1])]

\* ------------------------------------------ BranchDependencyAnalysisService
\* st bundles what a call may change: [c: the two cache dicts, analysis_result,
\* last_loaded_time, metrics]; every operation yields [st, outcome, cause, ret]
Current ==
    [c |-> [cache |-> cache, access_times |-> access_times],
     analysis_result |-> analysis_result,
     last_loaded_time |-> last_loaded_time,
     metrics |-> metrics]

\* `if self.cache_service:` is true of both cache classes
has_cache == cfg.cache # "none"

should_reload_data(st) ==
    IF IsNone(st.last_loaded_time) THEN TRUE
    ELSE LET last_modified == get_last_modified
         IN IF IsNone(last_modified) THEN FALSE
            ELSE last_modified.some > st.last_loaded_time.some

\* _get_analysis_result: [st, err, val]
\* _get_analysis_result that records the load time before it calls the repository
get_analysis_result_stamping_first(st, t) ==
    LET should_reload == IsNone(st.analysis_result) \/ should_reload_data(st)
    IN IF should_reload
       THEN LET loaded == load_analysis_result(st.c, t)
            IN IF loaded.err # "none"
               THEN [st |-> [st EXCEPT !.c = loaded.c, !.last_loaded_time = Some(t)],
                     err |-> loaded.err, val |-> loaded.val]
               ELSE [st |-> [st EXCEPT !.c = loaded.c,
                                       !.analysis_result = Some(loaded.val),
                                       !.last_loaded_time = Some(t)],
                     err |-> "none", val |-> loaded.val]
       ELSE [st |-> st, err |-> "none", val |-> st.analysis_result.some]

get_analysis_result(st, t) ==
    LET should_reload == IsNone(st.analysis_result) \/ should_reload_data(st)
    IN IF should_reload
       THEN LET loaded == load_analysis_result(st.c, t)
            IN IF loaded.err # "none"
               THEN [st |-> [st EXCEPT !.c = loaded.c], err |-> loaded.err,
                     val |-> loaded.val]
               ELSE [st |-> [st EXCEPT !.c = loaded.c,
                                       !.analysis_result = Some(loaded.val),
                                       !.last_loaded_time = Some(t)],
                     err |-> "none", val |-> loaded.val]
       ELSE [st |-> st, err |-> "none", val |-> st.analysis_result.some]

\* `raise ValueError(...)`, re-raised as it is by `except ValueError`
raise_value_error(st) ==
    [st |-> st, outcome |-> "ValueError", cause |-> "none", ret |-> RetNone]

\* `except Exception as e`: record_error, then raise AnalysisError(...) from e
raise_analysis_error(st, operation, error_type) ==
    [st |-> [st EXCEPT !.metrics = record_error(@, operation, error_type)],
     outcome |-> "AnalysisError", cause |-> error_type, ret |-> RetNone]

\* what each cached operation computes from the result it obtained
compute_view(view, r) ==
    CASE view.of = "summary" -> RetStats(SummaryStatistics_from_analysis_result(r))
      [] view.of = "hotspots" -> RetFiles(get_hotspots(r, view.limit))
      [] view.of = "dependencies" ->
            RetEntries(dependencies_of_type(r.files, view.dep_type))

\* the body shared by the three cached operations once the input is valid:
\* cache lookup, hit or miss, _get_analysis_result, compute, cache.set, timing
cached_operation(st, t, operation, cache_key, view) ==
    LET cached == IF has_cache THEN cache_value(st.c, cache_key) ELSE None
        looked == IF has_cache THEN [st EXCEPT !.c = cache_get(@, cache_key, t)] ELSE st
    IN IF ~IsNone(cached)
       THEN [st |-> [looked EXCEPT !.metrics = record_cache_hit(@, cache_key)],
             outcome |-> "ok", cause |-> "none", ret |-> cached.some]
       ELSE LET missed == IF has_cache
                          THEN [looked EXCEPT !.metrics = record_cache_miss(@, cache_key)]
                          ELSE looked
                got == get_analysis_result(missed, t)
            IN IF got.err # "none"
               THEN raise_analysis_error(got.st, operation, got.err)
               ELSE LET value == compute_view(view, got.val)
                        stored == IF has_cache
                                  THEN [got.st EXCEPT !.c = cache_set(@, cache_key, value, t)]
                                  ELSE got.st
                    IN [st |-> [stored EXCEPT !.metrics =
                                   record_analysis_time(@, operation, 0)],
                        outcome |-> "ok", cause |-> "none", ret |-> value]

get_summary_statistics(st, t) ==
    cached_operation(st, t, "get_summary_statistics", summary_cache_key,
                     [of |-> "summary"])

find_dependency_hotspots(st, t, limit) ==
    IF ~validate_limit_parameter(limit) THEN raise_value_error(st)
    ELSE cached_operation(st, t, "find_dependency_hotspots",
                          hotspots_cache_key(limit.n),
                          [of |-> "hotspots", limit |-> limit.n])

get_dependencies_by_type(st, t, dep_type) ==
    IF dep_type.kind = "str"
    THEN \* 'str' object has no attribute 'value'
         raise_analysis_error(st, "get_dependencies_by_type", "AttributeError")
    ELSE IF ~validate_dependency_type(dep_type.value) THEN raise_value_error(st)
    ELSE cached_operation(st, t, "get_dependencies_by_type",
                          dependencies_cache_key(dep_type.value),
                          [of |-> "dependencies", dep_type |-> dep_type.value])

\* a search that stores its answer under a key of its own
search_dependencies_storing_answer(st, t, query) ==
    IF ~validate_search_query(query) THEN raise_value_error(st)
    ELSE LET got == get_analysis_result(st, t)
         IN IF got.err # "none"
            THEN raise_analysis_error(got.st, "search_dependencies", got.err)
            ELSE LET value == RetFiles(search_files(got.val, query.s))
                     stored == IF has_cache
                               THEN [got.st EXCEPT !.c = cache_set(@, <<"search_">> \o query.s,
                                                                   value, t)]
                               ELSE got.st
                 IN [st |-> [stored EXCEPT !.metrics =
                                record_analysis_time(@, "search_dependencies", 0)],
                     outcome |-> "ok", cause |-> "none", ret |-> value]

search_dependencies(st, t, query) ==
    IF ~validate_search_query(query) THEN raise_value_error(st)
    ELSE LET got == get_analysis_result(st, t)
         IN IF got.err # "none"
            THEN raise_analysis_error(got.st, "search_dependencies", got.err)
            ELSE [st |-> [got.st EXCEPT !.metrics =
                             record_analysis_time(@, "search_dependencies", 0)],
                  outcome |-> "ok", cause |-> "none",
                  ret |-> RetFiles(search_files(got.val, query.s))]

get_file_analysis(st, t, file_path) ==
    IF ~validate_file_path(file_path) THEN raise_value_error(st)
    ELSE LET got == get_analysis_result(st, t)
         IN IF got.err # "none"
            THEN raise_analysis_error(got.st, "get_file_analysis", got.err)
            ELSE LET found == find_file(got.val.files, file_path.s)
                 IN [st |-> IF found = RetNone THEN got.st
                            ELSE [got.st EXCEPT !.metrics =
                                     record_analysis_time(@, "get_file_analysis", 0)],
                     outcome |-> "ok", cause |-> "none", ret |-> found]

\* refresh_analysis that forgets the held result but leaves the cache alone
refresh_analysis_keep_cache(st, t) ==
    LET dropped == [st EXCEPT !.analysis_result = None, !.last_loaded_time = None]
        got == get_analysis_result(dropped, t)
    IN IF got.err # "none"
       THEN raise_analysis_error(got.st, "refresh_analysis", got.err)
       ELSE [st |-> got.st, outcome |-> "ok", cause |-> "none", ret |-> RetNone]

refresh_analysis(st, t) ==
    LET dropped == [st EXCEPT !.analysis_result = None, !.last_loaded_time = None]
        cleared == IF has_cache THEN [dropped EXCEPT !.c = cache_clear(@)] ELSE dropped
        got == get_analysis_result(cleared, t)
    IN IF got.err # "none"
       THEN raise_analysis_error(got.st, "refresh_analysis", got.err)
       ELSE [st |-> got.st, outcome |-> "ok", cause |-> "none", ret |-> RetNone]

\* ------------------------------------------------------------ input universes
SeqsUpTo(S, n) == UNION {[1..k -> S] : k \in 0..n}

LongString(n) == [i \in 1..n |-> "a"]

Meta0 ==
    [timestamp |-> strftime(0), analysis_time_seconds |-> 1, base_path |-> "/repo",
     analyzed_folders |-> <<"src">>, excluded_folders |-> <<>>,
     total_files_analyzed |-> 2]

Dep(type, context) ==
    [type |-> type, line |-> 1, context |-> context, details |-> EmptyDetails]

File(file_path, relative_path, dependencies) ==
    [file_path |-> file_path, relative_path |-> relative_path,
     dependencies |-> dependencies, error |-> None]

PathAb == <<"A", "b">>
PathbA == <<"b", "A">>
ContextBa == <<"B", "a">>
Contexta_b == <<"a", " ", "b">>

\* the documents the service runs against
Doc1 ==
    [files |-> <<File(PathAb, PathAb, <<Dep("instantiation", ContextBa)>>)>>,
     metadata |-> Meta0]

Doc2 ==
    [files |-> <<File(PathAb, PathAb, <<Dep("instantiation", ContextBa)>>),
                 File(PathbA, PathbA, <<Dep("static_call", ContextBa),
                                        Dep("instantiation", Contexta_b)>>)>>,
     metadata |-> Meta0]

NoData == [files |-> <<>>]

SavedResults == {Doc1, Doc2}

ExternalDocuments ==
    {[kind |-> "json", data |-> AnalysisResult_to_dict(Doc1)],
     [kind |-> "json", data |-> AnalysisResult_to_dict(Doc2)],
     [kind |-> "invalid_json", data |-> NoData]}

SvcLimits == {IntArg(1), IntArg(0)}
SvcTypes ==
    {TypeArg("enum", "instantiation"), TypeArg("object", "bogus"), TypeArg("str", "bogus")}
SvcQueries == {StrArg(<<"b", "a">>), StrArg(LongString(MAX_SEARCH_QUERY_LENGTH + 1))}
SvcPaths == {StrArg(PathbA), StrArg(<<>>)}

DEFAULT_MAX_SIZE == 1000

\* the bounded universe of results for the query functions
Chars == {"a", "A", "b", " "}
FnPaths == {PathAb, PathbA}
FnContexts == {ContextBa, Contexta_b}
FnTypes == {"instantiation", "static_call"}
FnDeps == {Dep(type, context) : type \in FnTypes, context \in FnContexts}
FnFiles ==
    {File(file_path, relative_path, dependencies) :
        file_path \in FnPaths, relative_path \in FnPaths,
        dependencies \in SeqsUpTo(FnDeps, MaxDeps)}
FnResults == {[files |-> files, metadata |-> Meta0] : files \in SeqsUpTo(FnFiles, MaxFiles)}

FnQueries ==
    {StrArg(q) : q \in SeqsUpTo(Chars, MaxQueryLen)}
        \cup {NonStrArg, StrArg(LongString(MAX_SEARCH_QUERY_LENGTH + 1))}
FnLimits ==
    {IntArg(n) : n \in ((-1)..(MaxFiles + 1)) \cup {MAX_LIMIT, MAX_LIMIT + 1}}
        \cup {NonIntArg}
FnTypeArgs ==
    {TypeArg("enum", t) : t \in DependencyType}
        \cup {TypeArg("object", "bogus"), TypeArg("str", "bogus"),
              TypeArg("str", "instantiation")}
FnPathArgs ==
    {StrArg(p) : p \in FnPaths \cup {<<>>, <<" ">>, <<"b">>, <<" ", "A", "b">>}}
        \cup {NonStrArg, StrArg(LongString(MAX_FILE_PATH_LENGTH)),
              StrArg(LongString(MAX_FILE_PATH_LENGTH - 1))}

\* ----------------------------------------------------------------- actions
ArgNone == [noarg |-> TRUE]

NoCall ==
    [op |-> "none", arg |-> ArgNone, outcome |-> "ok", cause |-> "none", ret |-> RetNone]

\* SimpleMetricsCollector grows without bound: calls stop at MaxMetricEvents
MaxMetricEvents == 2

RECURSIVE SumValues(_)
SumValues(d) == IF d = <<>> THEN 0 ELSE Head(d).value + SumValues(Tail(d))

RECURSIVE SumLengths(_)
SumLengths(d) == IF d = <<>> THEN 0 ELSE Len(Head(d).value) + SumLengths(Tail(d))

MetricEvents(m) ==
    SumLengths(m.operation_times) + SumValues(m.cache_hits)
        + SumValues(m.cache_misses) + SumValues(m.errors)

CanCall == cfg.metrics => MetricEvents(metrics) < MaxMetricEvents

\* a service call: the state it leaves and the record of the call
Served(operation, arg, res) ==
    /\ operation \in cfg.client \cup {"refresh_analysis"}
    /\ cache' = res.st.c.cache
    /\ access_times' = res.st.c.access_times
    /\ analysis_result' = res.st.analysis_result
    /\ last_loaded_time' = res.st.last_loaded_time
    /\ metrics' = res.st.metrics
    /\ call' = [op |-> operation, arg |-> arg, outcome |-> res.outcome,
                cause |-> res.cause, ret |-> res.ret]
    /\ UNCHANGED <<now, disk, cfg>>

Serve(operation, arg, res) == CanCall /\ Served(operation, arg, res)

GetSummaryStatistics ==
    Serve("get_summary_statistics", ArgNone, get_summary_statistics(Current, now))

FindDependencyHotspots(limit) ==
    Serve("find_dependency_hotspots", [limit |-> limit],
          find_dependency_hotspots(Current, now, limit))

GetDependenciesByType(dep_type) ==
    Serve("get_dependencies_by_type", [dep_type |-> dep_type],
          get_dependencies_by_type(Current, now, dep_type))

SearchDependencies(query) ==
    Serve("search_dependencies", [query |-> query],
          search_dependencies(Current, now, query))

GetFileAnalysis(file_path) ==
    Serve("get_file_analysis", [file_path |-> file_path],
          get_file_analysis(Current, now, file_path))

RefreshAnalysis == Serve("refresh_analysis", ArgNone, refresh_analysis(Current, now))

\* JsonAnalysisDataRepository.save_analysis_result; io is what the file system
\* does: the write succeeds, open() fails, or the write fails after open()
\* truncated the file
SaveAnalysisResult(result, io) ==
    /\ disk' = CASE io = "ok" ->
                      [kind |-> "json", data |-> AnalysisResult_to_dict(result),
                       mtime |-> now]
                 [] io = "open_fails" -> disk
                 [] io = "write_fails" ->
                      [kind |-> "invalid_json", data |-> NoData,
                       mtime |-> now]
    /\ LET c == IF io = "ok"
                THEN cache_set(Current.c, repository_cache_key, [result |-> result], now)
                ELSE Current.c
       IN /\ cache' = c.cache
          /\ access_times' = c.access_times
    /\ call' = [op |-> "save_analysis_result", arg |-> [result |-> result],
                outcome |-> IF io = "ok" THEN "ok" ELSE "RepositoryError",
                cause |-> IF io = "ok" THEN "none" ELSE "IOError", ret |-> RetNone]
    /\ UNCHANGED <<now, cfg, analysis_result, last_loaded_time, metrics>>

\* JsonAnalysisDataRepository.invalidate_cache
InvalidateCache ==
    /\ LET c == cache_delete(Current.c, repository_cache_key)
       IN /\ cache' = c.cache
          /\ access_times' = c.access_times
    /\ call' = [op |-> "invalidate_cache", arg |-> ArgNone, outcome |-> "ok",
                cause |-> "none", ret |-> RetNone]
    /\ UNCHANGED <<now, disk, cfg, analysis_result, last_loaded_time, metrics>>

\* another process (the scan) rewrites the document
ExternalWrite(doc) ==
    /\ disk' = [kind |-> doc.kind, data |-> doc.data, mtime |-> now]
    /\ disk' # disk
    /\ call' = [op |-> "external_write", arg |-> ArgNone, outcome |-> "ok",
                cause |-> "none", ret |-> RetNone]
    /\ UNCHANGED <<now, cfg, cache, access_times, analysis_result, last_loaded_time,
                   metrics>>

Tick ==
    /\ now < MaxTime
    /\ now' = now + 1
    /\ UNCHANGED <<disk, cfg, cache, access_times, analysis_result, last_loaded_time,
                   metrics, call>>

\* ------------------------------------------------------- the service at work
QueryOperations ==
    {"get_summary_statistics", "find_dependency_hotspots", "get_dependencies_by_type",
     "search_dependencies", "get_file_analysis"}

\* a run's client issues at most MaxClientOps kinds of query
MaxClientOps == 1

Clients == {ops \in SUBSET QueryOperations : Cardinality(ops) \in 1..MaxClientOps}

Configurations ==
    {[cache |-> kind, max_size |-> DEFAULT_MAX_SIZE, metrics |-> m, client |-> ops] :
        kind \in {"none", "memory"}, m \in BOOLEAN, ops \in Clients}

InitialDisks ==
    {[kind |-> "missing", data |-> NoData, mtime |-> 0],
     [kind |-> "json", data |-> AnalysisResult_to_dict(Doc1), mtime |-> 0]}

InitService ==
    /\ now = 0
    /\ cache = <<>>
    /\ access_times = <<>>
    /\ analysis_result = None
    /\ last_loaded_time = None
    /\ metrics = NoMetrics
    /\ call = NoCall

Init ==
    /\ InitService
    /\ disk \in InitialDisks
    /\ cfg \in Configurations

Query ==
    \/ GetSummaryStatistics
    \/ \E limit \in SvcLimits : FindDependencyHotspots(limit)
    \/ \E dep_type \in SvcTypes : GetDependenciesByType(dep_type)
    \/ \E query \in SvcQueries : SearchDependencies(query)
    \/ \E file_path \in SvcPaths : GetFileAnalysis(file_path)

Next ==
    \/ Query
    \/ RefreshAnalysis
    \/ \E result \in SavedResults, io \in {"ok", "open_fails", "write_fails"} :
          SaveAnalysisResult(result, io)
    \/ InvalidateCache
    \/ \E doc \in ExternalDocuments : ExternalWrite(doc)
    \/ Tick

Spec == Init /\ [][Next]_vars

\* ------------------------------------- the query functions over every result
InitFn ==
    /\ InitService
    /\ \E r \in FnResults :
          disk = [kind |-> "json", data |-> AnalysisResult_to_dict(r), mtime |-> 0]
    /\ cfg = [cache |-> "memory", max_size |-> DEFAULT_MAX_SIZE, metrics |-> FALSE,
              client |-> QueryOperations]

NextFn ==
    /\ call = NoCall
    /\ \/ GetSummaryStatistics
       \/ \E limit \in FnLimits : FindDependencyHotspots(limit)
       \/ \E dep_type \in FnTypeArgs : GetDependenciesByType(dep_type)
       \/ \E query \in FnQueries : SearchDependencies(query)
       \/ \E file_path \in FnPathArgs : GetFileAnalysis(file_path)

SpecFn == InitFn /\ [][NextFn]_vars

\* ------------------------------------------------------- what a query answers
\* the value a query with the arguments of call record c computes from result r
ExpectedAnswer(c, r) ==
    CASE c.op = "get_summary_statistics" ->
            RetStats(SummaryStatistics_from_analysis_result(r))
      [] c.op = "find_dependency_hotspots" ->
            RetFiles(get_hotspots(r, c.arg.limit.n))
      [] c.op = "get_dependencies_by_type" ->
            RetEntries(dependencies_of_type(r.files, c.arg.dep_type.value))
      [] c.op = "search_dependencies" ->
            RetFiles(search_files(r, c.arg.query.s))
      [] c.op = "get_file_analysis" ->
            find_file(r.files, c.arg.file_path.s)

Answered(c) == c.op \in QueryOperations /\ c.outcome = "ok"

DiskReadable ==
    disk.kind = "json" /\ AnalysisResult_from_dict_error(disk.data) = "none"

\* a service operation is the step being taken
ServiceStep == Query \/ RefreshAnalysis

\* ------------------------------------------------------------------- claims
\* C1: once save(r2) has given the document a modification time newer than
\* the service's last load time, the next query that is answered returns the
\* value computed from r2, whichever of the five queries it is and whether or
\* not a cache is wired in.
C1_NextQueryReflectsSave ==
    [][(/\ call.op = "save_analysis_result"
        /\ call.outcome = "ok"
        /\ ~IsNone(last_loaded_time)
        /\ disk.mtime > last_loaded_time.some
        /\ Query
        /\ Answered(call'))
       => call'.ret = ExpectedAnswer(call', call.arg.result)]_vars

\* C2: the service catches up with the document on disk: once it has loaded
\* at a time later than the document's last write, every query it answers is
\* computed from the document that is on disk.
C2_AnswersFollowDisk ==
    (/\ DiskReadable
     /\ ~IsNone(last_loaded_time)
     /\ last_loaded_time.some > disk.mtime
     /\ Answered(call))
    => call.ret = ExpectedAnswer(call, AnalysisResult_from_dict(disk.data))

\* C3: a refresh_analysis that returns leaves the service holding the result
\* the repository loaded during the call, stamped with the time of the call,
\* and a cache that holds nothing but that freshly loaded result: every key
\* that was there before is gone.  The query that follows is computed from the
\* refreshed result.
C3_RefreshReplacesEverything ==
    [][/\ (RefreshAnalysis /\ call'.outcome = "ok")
          => /\ analysis_result' =
                    Some(IF exists THEN AnalysisResult_from_dict(disk.data)
                         ELSE create_empty_result(now))
             /\ last_loaded_time' = Some(now)
             /\ cache' \in {<<>>, <<[key |-> repository_cache_key,
                                     value |-> [result |-> analysis_result'.some]]>>}
             /\ access_times' \in {<<>>, <<[key |-> repository_cache_key,
                                            time |-> now]>>}
       /\ (/\ call.op = "refresh_analysis"
           /\ call.outcome = "ok"
           /\ Query
           /\ Answered(call'))
          => call'.ret = ExpectedAnswer(call', analysis_result.some)]_vars

C3_Witness ==
    /\ call.op = "refresh_analysis"
    /\ call.outcome = "ok"
    /\ cfg.cache = "memory"
    /\ now > 0
    /\ last_loaded_time = Some(now)
    /\ analysis_result = Some(Doc2)
    /\ DictKeys(cache) = {repository_cache_key}

\* the input of query record c is one its validator refuses
InputRefused(c) ==
    CASE c.op = "find_dependency_hotspots" ->
            ~(c.arg.limit.isint /\ c.arg.limit.n \in MIN_LIMIT..MAX_LIMIT)
      [] c.op = "get_dependencies_by_type" ->
            c.arg.dep_type.value \notin DependencyType
      [] c.op = "search_dependencies" ->
            ~(c.arg.query.isstr /\ Len(strip(c.arg.query.s)) <= MAX_SEARCH_QUERY_LENGTH)
      [] c.op = "get_file_analysis" ->
            ~(/\ c.arg.file_path.isstr
              /\ Len(strip(c.arg.file_path.s)) \in 1..(MAX_FILE_PATH_LENGTH - 1))
      [] OTHER -> FALSE

\* C4: a hotspots, by-type, search or file query whose input is refused fails
\* with the validation error and touches nothing: the document, the cache and
\* its access times, the held result and the load timestamp stay as they were.
C4_RefusedInputTouchesNothing ==
    [][(Query /\ InputRefused(call'))
       => /\ call'.outcome = "ValueError"
          /\ UNCHANGED <<disk, cache, access_times, analysis_result,
                         last_loaded_time>>]_vars

\* the errors dict after one more (operation, error_type) has been counted
OneMoreError(errors, operation, error_type) ==
    DictPut(errors, [key |-> <<operation, error_type>>,
                     value |-> Count(errors, <<operation, error_type>>) + 1])

\* a failure that is not a refused input: the collector counts it once under
\* the operation and the error's kind, the caller gets AnalysisError with the
\* cause; nothing else touches the error counts
FailuresRecordedOnce ==
    /\ call'.outcome \in {"ok", "ValueError", "AnalysisError"}
    /\ call'.outcome = "AnalysisError"
          => /\ call'.cause \in {"RepositoryError", "AttributeError"}
             /\ cfg.metrics =>
                   metrics'.errors = OneMoreError(metrics.errors, call'.op, call'.cause)
    /\ call'.outcome # "AnalysisError" => metrics'.errors = metrics.errors

\* the validator of query record c ran and returned False
ValidationFails(c) ==
    CASE c.op = "find_dependency_hotspots" -> ~validate_limit_parameter(c.arg.limit)
      [] c.op = "get_dependencies_by_type" ->
            c.arg.dep_type.kind # "str" /\ ~validate_dependency_type(c.arg.dep_type.value)
      [] c.op = "search_dependencies" -> ~validate_search_query(c.arg.query)
      [] c.op = "get_file_analysis" -> ~validate_file_path(c.arg.file_path)
      [] OTHER -> FALSE

HotspotRank(files, i) ==
    1 + Cardinality({j \in 1..Len(files) :
            /\ Len(files[j].dependencies) >= 1
            /\ \/ Len(files[j].dependencies) > Len(files[i].dependencies)
               \/ /\ Len(files[j].dependencies) = Len(files[i].dependencies)
                  /\ j < i})

\* C6: for a limit in 1..1000 find_dependency_hotspots succeeds and returns
\* the files that have a dependency, ranked by falling number of dependencies
\* with equals in file order, cut to the first limit of them; a limit of zero
\* or less fails validation.
C6_HotspotsAreTheTopRanked ==
    call.op = "find_dependency_hotspots" =>
        LET limit == call.arg.limit
        IN /\ (limit.isint /\ limit.n \in 1..1000) =>
                /\ call.outcome = "ok"
                /\ LET files == analysis_result.some.files
                       with == {i \in 1..Len(files) : Len(files[i].dependencies) >= 1}
                   IN /\ Len(call.ret.files) = Min(limit.n, Cardinality(with))
                      /\ \A i \in with :
                            HotspotRank(files, i) <= limit.n =>
                                call.ret.files[HotspotRank(files, i)] = files[i]
           /\ (limit.isint /\ limit.n <= 0) => call.outcome = "ValueError"

C6_Witness ==
    /\ call.op = "find_dependency_hotspots"
    /\ call.outcome = "ok"
    /\ call.arg.limit.n = 2
    /\ Len(analysis_result.some.files) = 2
    /\ Len(call.ret.files) = 2
    /\ call.ret.files[1] # call.ret.files[2]
    /\ Len(call.ret.files[1].dependencies) = Len(call.ret.files[2].dependencies)

\* q occurs in s when letter case is ignored
CIContains(q, s) ==
    \E offset \in 0..(Len(s) - Len(q)) :
        \A k \in 1..Len(q) : LowerChar(q[k]) = LowerChar(s[offset + k])

QueryMatches(f, q) ==
    \/ CIContains(q, f.relative_path)
    \/ \E d \in 1..Len(f.dependencies) : CIContains(q, f.dependencies[d].context)

SearchableQuery(c) ==
    /\ c.op = "search_dependencies"
    /\ c.arg.query.isstr
    /\ Len(strip(c.arg.query.s)) \in 2..MAX_SEARCH_QUERY_LENGTH

\* C7 as the text has it: for a query of two or more trimmed characters
\* search_dependencies returns, in file order, exactly the files whose
\* relative path or one of whose dependency contexts contains the query,
\* letter case ignored, with or without dependencies.
C7_SearchReturnsEveryMatchingFile ==
    SearchableQuery(call) =>
        /\ call.outcome = "ok"
        /\ LET Hit(f) == QueryMatches(f, call.arg.query.s)
           IN call.ret.files = SelectSeq(analysis_result.some.files, Hit)

\* C7, restricted: for a query of two or more trimmed characters
\* search_dependencies returns, in file order, exactly the files that have at
\* least one dependency and whose relative path or one of whose dependency
\* contexts contains the query as given (untrimmed), letter case ignored.
C7_SearchReturnsMatchingFilesWithDependencies ==
    SearchableQuery(call) =>
        /\ call.outcome = "ok"
        /\ LET Hit(f) ==
                   Len(f.dependencies) >= 1 /\ QueryMatches(f, call.arg.query.s)
           IN call.ret.files = SelectSeq(analysis_result.some.files, Hit)

C7_Witness ==
    /\ SearchableQuery(call)
    /\ call.outcome = "ok"
    /\ Len(call.ret.files) = 1
    /\ Len(analysis_result.some.files) = 2
    /\ LET other == analysis_result.some.files[1]
       IN /\ other.dependencies = <<>>
          /\ CIContains(call.arg.query.s, other.relative_path)
    /\ ~CIContains(call.arg.query.s, call.ret.files[1].relative_path)

\* C8: a search query of trimmed length 0 or 1 passes validation and the
\* search returns the empty list, whatever the result holds; search_files is
\* empty for it.
C8_ShortQueryFindsNothing ==
    (/\ call.op = "search_dependencies"
     /\ call.arg.query.isstr
     /\ Len(strip(call.arg.query.s)) <= 1)
    => /\ call.outcome = "ok"
       /\ call.ret = RetFiles(<<>>)
       /\ search_files(analysis_result.some, call.arg.query.s) = <<>>

C8_Witness ==
    /\ call.op = "search_dependencies"
    /\ call.outcome = "ok"
    /\ Len(strip(call.arg.query.s)) = 1
    /\ call.ret = RetFiles(<<>>)
    /\ \E i \in 1..Len(analysis_result.some.files) :
          /\ analysis_result.some.files[i].dependencies # <<>>
          /\ QueryMatches(analysis_result.some.files[i], strip(call.arg.query.s))

\* where the dependencies of type t sit: <<file index, index within the file>>
TypePositions(files, t) ==
    UNION {{<<i, j>> : j \in {k \in 1..Len(files[i].dependencies) :
                                 files[i].dependencies[k].type = t}} :
           i \in 1..Len(files)}

PositionBefore(p, q) == p[1] < q[1] \/ (p[1] = q[1] /\ p[2] < q[2])

\* C9: get_dependencies_by_type(t) returns one entry for each dependency of
\* type t and nothing else, each with the relative path of its file, files in
\* file order and dependencies in their order within the file; there are as
\* many entries as the type distribution counts for t.
C9_EntriesAreTheDependenciesOfTheType ==
    (call.op = "get_dependencies_by_type" /\ call.arg.dep_type.kind = "enum") =>
        /\ call.outcome = "ok"
        /\ LET t == call.arg.dep_type.value
               files == analysis_result.some.files
               positions == TypePositions(files, t)
               distribution == dependency_type_distribution(analysis_result.some)
               entries == call.ret.entries
           IN /\ Len(entries) = Cardinality(positions)
              /\ \A p \in positions :
                    LET k == 1 + Cardinality({q \in positions : PositionBefore(q, p)})
                        dep == files[p[1]].dependencies[p[2]]
                    IN entries[k] =
                          [type |-> dep.type, line |-> dep.line,
                           context |-> dep.context, details |-> dep.details,
                           file |-> files[p[1]].relative_path]
              /\ Len(entries) =
                    IF t \in DOMAIN distribution THEN distribution[t] ELSE 0

C9_Witness ==
    /\ call.op = "get_dependencies_by_type"
    /\ call.outcome = "ok"
    /\ Len(call.ret.entries) = 2
    /\ call.ret.entries[1].file # call.ret.entries[2].file
    /\ LET files == analysis_result.some.files
       IN /\ Len(files) = 2
          /\ Len(files[1].dependencies) = 2
          /\ files[1].dependencies[1].type # call.arg.dep_type.value
          /\ files[1].file_path # files[1].relative_path

ValidPath(c) ==
    /\ c.op = "get_file_analysis"
    /\ c.arg.file_path.isstr
    /\ Len(strip(c.arg.file_path.s)) \in 1..(MAX_FILE_PATH_LENGTH - 1)

\* C10: for a valid path get_file_analysis succeeds; it returns the first
\* file, in file order, whose relative_path or file_path is exactly the path,
\* with or without dependencies, and none when no file has that path.
C10_FirstFileWithThePath ==
    ValidPath(call) =>
        /\ call.outcome = "ok"
        /\ LET files == analysis_result.some.files
               path == call.arg.file_path.s
               hits == {i \in 1..Len(files) :
                           files[i].relative_path = path \/ files[i].file_path = path}
           IN IF hits = {} THEN call.ret = RetNone
              ELSE \E i \in hits :
                      /\ \A j \in hits : i <= j
                      /\ call.ret = RetFile(files[i])

C10_Witness ==
    /\ ValidPath(call)
    /\ call.outcome = "ok"
    /\ Len(analysis_result.some.files) = 2
    /\ call.ret = RetFile(analysis_result.some.files[2])
    /\ call.ret.file.dependencies = <<>>
    /\ call.ret.file.relative_path # call.arg.file_path.s
    /\ analysis_result.some.files[1].dependencies # <<>>

\* C11: the summary of a result reports the number of files, the number of
\* files with at least one dependency, the number of dependencies of all
\* files together, and for exactly the types that occur the number of their
\* occurrences; the counts add up to total_dependencies and
\* files_with_dependencies is at most total_files.
C11_SummaryCountsTheResult ==
    (call.op = "get_summary_statistics" /\ call.outcome = "ok") =>
        LET files == analysis_result.some.files
            stats == call.ret.stats
            counts == stats.dependency_type_counts
            occurring == {t \in DependencyType : TypePositions(files, t) # {}}
            AllPositions == UNION {TypePositions(files, t) : t \in DependencyType}
        IN /\ stats.total_files = Len(files)
           /\ stats.files_with_dependencies =
                 Cardinality({i \in 1..Len(files) : Len(files[i].dependencies) >= 1})
           /\ stats.total_dependencies = Cardinality(AllPositions)
           /\ DOMAIN counts = occurring
           /\ \A t \in occurring : counts[t] = Cardinality(TypePositions(files, t))
           /\ SumSeq([i \in 1..Len(files) |-> Len(files[i].dependencies)])
                 = stats.total_dependencies
           /\ stats.files_with_dependencies <= stats.total_files

C11_Witness ==
    /\ call.op = "get_summary_statistics"
    /\ call.outcome = "ok"
    /\ call.ret.stats.total_files = 2
    /\ call.ret.stats.files_with_dependencies = 1
    /\ call.ret.stats.total_dependencies = 2
    /\ DOMAIN call.ret.stats.dependency_type_counts = {"instantiation", "static_call"}

\* ------------------------------------------- InMemoryCacheService on its own
\* one cache of max_size 0..MaxCacheSize, called directly with a few keys
MaxCacheSize == 2

CacheKeys == {<<"a">>, <<"b">>, <<"c">>}
CacheValues == {1, 2}

CacheState == [cache |-> cache, access_times |-> access_times]

CacheCall(operation, arg, c, ret) ==
    /\ cache' = c.cache
    /\ access_times' = c.access_times
    /\ call' = [op |-> operation, arg |-> arg, outcome |-> "ok", cause |-> "none",
                ret |-> ret]
    /\ UNCHANGED <<now, disk, cfg, analysis_result, last_loaded_time, metrics>>

CacheGet(key) ==
    CacheCall("cache.get", [key |-> key],
              InMemoryCacheService_get(CacheState, key, now),
              [value |-> InMemoryCacheService_value(CacheState, key)])

CacheSet(key, value) ==
    CacheCall("cache.set", [key |-> key, value |-> value],
              InMemoryCacheService_set(CacheState, key, value, now, cfg.max_size),
              RetNone)

CacheDelete(key) ==
    CacheCall("cache.delete", [key |-> key],
              InMemoryCacheService_delete(CacheState, key), RetNone)

CacheClear ==
    CacheCall("cache.clear", ArgNone, InMemoryCacheService_clear(CacheState), RetNone)

InitCache ==
    /\ InitService
    /\ disk = [kind |-> "missing", data |-> NoData, mtime |-> 0]
    /\ \E max_size \in 0..MaxCacheSize :
          cfg = [cache |-> "memory", max_size |-> max_size, metrics |-> FALSE,
                 client |-> {}]

NextCache ==
    \/ \E key \in CacheKeys : CacheGet(key)
    \/ \E key \in CacheKeys, value \in CacheValues : CacheSet(key, value)
    \/ \E key \in CacheKeys : CacheDelete(key)
    \/ CacheClear
    \/ Tick

SpecCache == InitCache /\ [][NextCache]_vars

AccessTime(times, key) == times[DictIndex(times, key)].time

\* key is an entry none was accessed before
IsOldest(times, key) ==
    \A other \in DictKeys(times) : AccessTime(times, key) <= AccessTime(times, other)

SetOfNewKeyAtCapacity(key) ==
    ~DictHas(cache, key) /\ Len(cache) >= cfg.max_size

KeepsEveryEntry ==
    /\ \A key \in CacheKeys : CacheGet(key) => DictKeys(cache') = DictKeys(cache)
    /\ \A key \in CacheKeys, value \in CacheValues :
          (CacheSet(key, value) /\ ~SetOfNewKeyAtCapacity(key))
             => DictKeys(cache') = DictKeys(cache) \cup {key}

EvictsOneOldest(key) ==
    \E evicted \in DictKeys(cache) :
        /\ IsOldest(access_times, evicted)
        /\ DictKeys(cache') = (DictKeys(cache) \ {evicted}) \cup {key}
        /\ IsNone(InMemoryCacheService_value(
                      [cache |-> cache', access_times |-> access_times'], evicted))

C13_SizeBoundAndSameKeys ==
    /\ Len(cache) <= cfg.max_size
    /\ DictKeys(cache) = DictKeys(access_times)

\* ------------------------------------------------- the repository on its own
RetResult(r) == [result |-> r]

Doc1Dict == AnalysisResult_to_dict(Doc1)

\* documents another process may leave at the path
LoadDocuments ==
    {[kind |-> "json", data |-> Doc1Dict],
     [kind |-> "json", data |-> [Doc1Dict EXCEPT !.files[1].dependencies[1].line = -1]],
     [kind |-> "json",
      data |-> [Doc1Dict EXCEPT !.files[1].dependencies[1].context = <<" ">>]],
     [kind |-> "json",
      data |-> [Doc1Dict EXCEPT !.files[1].dependencies[1].type = "bogus"]],
     [kind |-> "json_array", data |-> NoData],
     [kind |-> "invalid_json", data |-> NoData]}

\* JsonAnalysisDataRepository.load_analysis_result, called by a client
LoadAnalysisResult ==
    LET loaded == load_analysis_result(Current.c, now)
    IN /\ cache' = loaded.c.cache
       /\ access_times' = loaded.c.access_times
       /\ call' = [op |-> "load_analysis_result", arg |-> ArgNone,
                   outcome |-> IF loaded.err = "none" THEN "ok" ELSE loaded.err,
                   cause |-> "none",
                   ret |-> IF loaded.err = "none" THEN RetResult(loaded.val)
                           ELSE RetNone]
       /\ UNCHANGED <<now, disk, cfg, analysis_result, last_loaded_time, metrics>>

\* another process removes the document
ExternalDelete ==
    /\ exists
    /\ disk' = [kind |-> "missing", data |-> NoData, mtime |-> 0]
    /\ call' = [op |-> "external_delete", arg |-> ArgNone, outcome |-> "ok",
                cause |-> "none", ret |-> RetNone]
    /\ UNCHANGED <<now, cfg, cache, access_times, analysis_result, last_loaded_time,
                   metrics>>

InitLoad ==
    /\ InitService
    /\ disk \in InitialDisks
    /\ cfg \in {[cache |-> kind, max_size |-> DEFAULT_MAX_SIZE, metrics |-> FALSE,
                 client |-> {}] : kind \in {"none", "memory"}}

NextLoad ==
    \/ LoadAnalysisResult
    \/ \E io \in {"ok", "open_fails", "write_fails"} : SaveAnalysisResult(Doc2, io)
    \/ InvalidateCache
    \/ \E doc \in LoadDocuments : ExternalWrite(doc)
    \/ ExternalDelete
    \/ Tick

SpecLoad == InitLoad /\ [][NextLoad]_vars

\* the document at the path cannot be read as JSON or mapped to the domain model
Unmappable ==
    \/ disk.kind \in {"invalid_json", "json_array"}
    \/ disk.kind = "json" /\ AnalysisResult_from_dict_error(disk.data) # "none"

ZeroValued(m) ==
    /\ m.analysis_time_seconds = 0
    /\ m.base_path = ""
    /\ m.analyzed_folders = <<>>
    /\ m.excluded_folders = <<>>
    /\ m.total_files_analyzed = 0

\* C14: a load when no file is at the path returns a result with no files and
\* zero-valued metadata and raises nothing; a load when the file is not valid
\* JSON or its data cannot be mapped to the domain model fails with
\* RepositoryError and returns no result.
C14_LoadEmptyOrRepositoryError ==
    call.op = "load_analysis_result" =>
        /\ ~exists =>
              /\ call.outcome = "ok"
              /\ call.ret.result.files = <<>>
              /\ ZeroValued(call.ret.result.metadata)
        /\ Unmappable => call.outcome = "RepositoryError" /\ call.ret = RetNone

\* --------------------------------------------- to_dict and from_dict in turn
RtDependencies ==
    {[type |-> type, line |-> line, context |-> context, details |-> details] :
        type \in {"instantiation", "type_hint"}, line \in {-1, 0},
        context \in {ContextBa, <<" ">>},
        details \in {EmptyDetails, [class_name |-> "Branch"]}}

RtFiles ==
    {[file_path |-> PathAb, relative_path |-> relative_path,
      dependencies |-> dependencies, error |-> error] :
        relative_path \in {PathAb, PathbA},
        dependencies \in SeqsUpTo(RtDependencies, 1),
        error \in {None, Some("parse failed")}}

RtMetadata == {Meta0, [Meta0 EXCEPT !.excluded_folders = <<"vendor">>]}

\* the objects the constructors accept (each __post_init__ passes)
ValidDependency(dep) ==
    dep.type \in DependencyType
    /\ Dependency_post_init(dep.type, dep.line, dep.context) = "none"

ValidFileAnalysis(f) ==
    /\ \A i \in 1..Len(f.dependencies) : ValidDependency(f.dependencies[i])
    /\ FileAnalysis_post_init(f.file_path, f.relative_path) = "none"

ValidAnalysisResult(r) ==
    /\ \A i \in 1..Len(r.files) : ValidFileAnalysis(r.files[i])
    /\ AnalysisMetadata_post_init(r.metadata) = "none"

RtResults ==
    {r \in [files : SeqsUpTo({f \in RtFiles : ValidFileAnalysis(f)}, MaxFiles),
            metadata : RtMetadata] : ValidAnalysisResult(r)}

\* AnalysisResult.to_dict of the held result; the dict is kept as the document
AnalysisResultToDict ==
    /\ ~IsNone(analysis_result)
    /\ disk' = [kind |-> "json", data |-> AnalysisResult_to_dict(analysis_result.some),
                mtime |-> now]
    /\ call' = [op |-> "to_dict", arg |-> ArgNone, outcome |-> "ok", cause |-> "none",
                ret |-> RetNone]
    /\ UNCHANGED <<now, cfg, cache, access_times, analysis_result, last_loaded_time,
                   metrics>>

\* AnalysisResult.from_dict of the kept dict
AnalysisResultFromDict ==
    /\ disk.kind = "json"
    /\ LET err == AnalysisResult_from_dict_error(disk.data)
       IN call' = [op |-> "from_dict", arg |-> ArgNone,
                   outcome |-> IF err = "none" THEN "ok" ELSE err, cause |-> "none",
                   ret |-> IF err = "none"
                           THEN RetResult(AnalysisResult_from_dict(disk.data))
                           ELSE RetNone]
    /\ UNCHANGED <<now, disk, cfg, cache, access_times, analysis_result,
                   last_loaded_time, metrics>>

InitRoundTrip ==
    /\ now = 0
    /\ cache = <<>>
    /\ access_times = <<>>
    /\ \E r \in RtResults : analysis_result = Some(r)
    /\ last_loaded_time = None
    /\ metrics = NoMetrics
    /\ call = NoCall
    /\ disk = [kind |-> "missing", data |-> NoData, mtime |-> 0]
    /\ cfg = [cache |-> "none", max_size |-> DEFAULT_MAX_SIZE, metrics |-> FALSE,
              client |-> {}]

NextRoundTrip == AnalysisResultToDict \/ AnalysisResultFromDict

SpecRoundTrip == InitRoundTrip /\ [][NextRoundTrip]_vars

\* C15: for every valid AnalysisResult r, from_dict(r.to_dict()) raises nothing
\* and equals r: the same files in the same order, each with the same paths,
\* error field and dependencies (type, line, context, details), and the same
\* metadata.
C15_FromDictOfToDictIsTheResult ==
    call.op = "from_dict" =>
        /\ call.outcome = "ok"
        /\ call.ret = RetResult(analysis_result.some)

C15_Witness ==
    /\ call.op = "from_dict"
    /\ call.outcome = "ok"
    /\ Len(analysis_result.some.files) = 2
    /\ analysis_result.some.files[1].error # None
    /\ analysis_result.some.files[1].relative_path # analysis_result.some.files[1].file_path
    /\ analysis_result.some.files[2].dependencies # <<>>
    /\ analysis_result.some.files[2].dependencies[1].details # EmptyDetails

\* ------------------------------------------------ the controllers' responses
\* the exception classes and their base classes (interfaces.py; builtins)
ExceptionBases ==
    [AnalysisError |-> {"AnalysisError"},
     RepositoryError |-> {"RepositoryError", "AnalysisError"},
     CacheError |-> {"CacheError", "AnalysisError"},
     ValidationError |-> {"ValidationError", "AnalysisError"},
     ConfigurationError |-> {"ConfigurationError", "AnalysisError"},
     ValueError |-> {"ValueError"},
     JSONDecodeError |-> {"JSONDecodeError", "ValueError"},
     AttributeError |-> {"AttributeError"},
     KeyError |-> {"KeyError"}]

isinstance(error, class) == class \in ExceptionBases[error.class]

\* an exception: its class, str(error) as a sequence of pieces of text, and
\* the __cause__ set by "raise ... from e"
Exception(class, text, cause) == [class |-> class, text |-> text, cause |-> cause]

\* raise Wrapper(f"{prefix}{e}") from e
RaiseFrom(class, prefix, e) == Exception(class, <<prefix>> \o e.text, Some(e))

\* APIResponse.error: the body handed to jsonify, and the status
APIResponse_error(message, error_type, status, details) ==
    [status |-> status,
     body |-> [success |-> FALSE,
               error |-> IF details = None \/ details = EmptyDict
                         THEN [message |-> message, type |-> error_type]
                         ELSE [message |-> message, type |-> error_type,
                               details |-> details.some]]]

APIResponse_validation_error(message) ==
    APIResponse_error(message, "validation_error", 400, None)

APIResponse_server_error(message) == APIResponse_error(message, "server_error", 500, None)

\* BaseController.handle_error
handle_error(error, operation) ==
    IF isinstance(error, "ValidationError") \/ isinstance(error, "ValueError")
    THEN APIResponse_validation_error(error.text)
    ELSE IF isinstance(error, "AnalysisError")
    THEN APIResponse_server_error(<<"Analysis operation failed: ">> \o error.text)
    ELSE APIResponse_server_error(<<operation, " failed due to unexpected error">>)

\* what the data layer raises
LowLevelErrors ==
    {Exception(class, <<text>>, None) :
        class \in {"JSONDecodeError", "ValueError", "KeyError", "AttributeError"},
        text \in {"Expecting value: line 1 column 1", "'file_path'"}}

RepositoryErrors ==
    {RaiseFrom("RepositoryError", "Invalid JSON in analysis file /data/deps.json: ", e) :
        e \in LowLevelErrors}

ServicePrefixes ==
    {"Failed to get summary statistics: ", "Failed to search dependencies: "}

\* what reaches execute_with_error_handling
HandledErrors ==
    LowLevelErrors
    \cup {RaiseFrom("AnalysisError", prefix, e) :
            prefix \in ServicePrefixes, e \in LowLevelErrors \cup RepositoryErrors}
    \cup {Exception(class, <<"Limit must be between 1 and 1000">>, None) :
            class \in DOMAIN ExceptionBases}

HandledOperations == {"get_summary", "get_hotspots", "search_dependencies"}

\* BaseController.execute_with_error_handling catching error
HandleError(error, operation) ==
    /\ call' = [op |-> "handle_error", arg |-> [error |-> error, operation |-> operation],
                outcome |-> "ok", cause |-> "none",
                ret |-> handle_error(error, operation)]
    /\ UNCHANGED <<now, disk, cfg, cache, access_times, analysis_result,
                   last_loaded_time, metrics>>

InitHandler ==
    /\ InitService
    /\ disk = [kind |-> "missing", data |-> NoData, mtime |-> 0]
    /\ cfg = [cache |-> "none", max_size |-> DEFAULT_MAX_SIZE, metrics |-> FALSE,
              client |-> {}]

NextHandler ==
    \E error \in HandledErrors, operation \in HandledOperations :
        HandleError(error, operation)

SpecHandler == InitHandler /\ [][NextHandler]_vars

\* the text of every exception in the chain of causes below the error
RECURSIVE CauseTexts(_)
CauseTexts(error) ==
    IF IsNone(error.cause) THEN {}
    ELSE {error.cause.some.text} \cup CauseTexts(error.cause.some)

\* C16: the error handler answers a ValidationError or ValueError with status
\* 400, an AnalysisError that is not a ValidationError with status 500 and a
\* message that contains none of the internal causes' text, and any other
\* exception with status 500; every error response has success = false and an
\* error object with a message and a type.
C16_ErrorsMapToStatusWithoutLeak ==
    call.op = "handle_error" =>
        LET error == call.arg.error
            response == call.ret
            validation == isinstance(error, "ValidationError")
                          \/ isinstance(error, "ValueError")
        IN /\ validation => response.status = 400
           /\ (~validation /\ isinstance(error, "AnalysisError")) =>
                 /\ response.status = 500
                 /\ \A text \in CauseTexts(error) :
                       ~Contains(text, response.body.error.message)
           /\ (~validation /\ ~isinstance(error, "AnalysisError")) =>
                 response.status = 500
           /\ response.body.success = FALSE
           /\ {"message", "type"} \subseteq DOMAIN response.body.error

\* -------------------------------------------------- the API-boundary validator
\* request values: None, a str, another object; an int, a str int() parses
NoneArg == [isstr |-> FALSE, s |-> <<>>, isint |-> FALSE, n |-> 0, none |-> TRUE]

IsNoneArg(v) == "none" \in DOMAIN v

NumeralArg(n) == [isint |-> FALSE, n |-> n, numeral |-> TRUE]

\* FILE_PATH_PATTERN: ^[a-zA-Z0-9_/\-\.\\]+$
FilePathChars ==
    {"a", "b", "c", "d", "e", "f", "g", "h", "i", "j", "k", "l", "m", "n", "o", "p",
     "q", "r", "s", "t", "u", "v", "w", "x", "y", "z",
     "A", "B", "C", "D", "E", "F", "G", "H", "I", "J", "K", "L", "M", "N", "O", "P",
     "Q", "R", "S", "T", "U", "V", "W", "X", "Y", "Z",
     "0", "1", "2", "3", "4", "5", "6", "7", "8", "9", "_", "/", "-", ".", "\\"}

FILE_PATH_PATTERN_match(s) == s # <<>> /\ \A i \in 1..Len(s) : s[i] \in FilePathChars

InputValidator_validate_search_query(query) ==
    IF IsNoneArg(query) THEN FALSE
    ELSE IF ~query.isstr THEN FALSE
    ELSE LET query_length == Len(strip(query.s))
         IN IF query_length < MIN_SEARCH_QUERY_LENGTH THEN FALSE
            ELSE IF query_length > MAX_SEARCH_QUERY_LENGTH THEN FALSE
            ELSE TRUE

\* int(limit) succeeds on an int and on a str holding a numeral
InputValidator_validate_limit_parameter(limit) ==
    IF IsNoneArg(limit) THEN TRUE
    ELSE IF ~limit.isint /\ "numeral" \notin DOMAIN limit THEN FALSE
    ELSE LET limit_int == limit.n
         IN IF limit_int < MIN_LIMIT THEN FALSE
            ELSE IF limit_int > MAX_LIMIT THEN FALSE
            ELSE TRUE

InputValidator_validate_file_path(file_path) ==
    IF IsNoneArg(file_path) THEN FALSE
    ELSE IF ~file_path.isstr THEN FALSE
    ELSE LET file_path_stripped == strip(file_path.s)
         IN IF file_path_stripped = <<>> THEN FALSE
            ELSE IF Len(file_path_stripped) > 1000 THEN FALSE
            ELSE IF ~FILE_PATH_PATTERN_match(file_path_stripped) THEN FALSE
            ELSE TRUE

\* values at and around each bound
EdgeLengths(bound) == {0, 1, 2, bound - 2, bound - 1, bound, bound + 1, bound + 2}

Padded(s) == {s, <<" ">> \o s, s \o <<" ">>, <<" ">> \o s \o <<" ">>}

ValLimits ==
    {IntArg(n) : n \in {-1} \cup EdgeLengths(MAX_LIMIT)}
    \cup {NumeralArg(n) : n \in EdgeLengths(MAX_LIMIT)}
    \cup {NonIntArg, NoneArg}

ValQueries ==
    {StrArg(s) : s \in UNION {Padded(LongString(n)) : n \in EdgeLengths(MAX_SEARCH_QUERY_LENGTH)}}
    \cup {NonStrArg, NoneArg}

ValPaths ==
    {StrArg(s) : s \in UNION {Padded(LongString(n)) \cup {LongString(n) \o <<"*">>} :
                                n \in EdgeLengths(MAX_FILE_PATH_LENGTH)}}
    \cup {NonStrArg, NoneArg}

RetValid(is_valid) == [is_valid |-> is_valid]

\* a call of one validator method of one of the two classes
Validate(class, method, value, is_valid) ==
    /\ call' = [op |-> method, arg |-> [class |-> class, value |-> value],
                outcome |-> "ok", cause |-> "none", ret |-> RetValid(is_valid)]
    /\ UNCHANGED <<now, disk, cfg, cache, access_times, analysis_result,
                   last_loaded_time, metrics>>

ServiceValidateLimit(limit) ==
    Validate("StandardValidationService", "validate_limit_parameter", limit,
             validate_limit_parameter(limit))

ServiceValidateQuery(query) ==
    Validate("StandardValidationService", "validate_search_query", query,
             validate_search_query(query))

ServiceValidatePath(file_path) ==
    Validate("StandardValidationService", "validate_file_path", file_path,
             validate_file_path(file_path))

ApiValidateLimit(limit) ==
    Validate("InputValidator", "validate_limit_parameter", limit,
             InputValidator_validate_limit_parameter(limit))

ApiValidateQuery(query) ==
    Validate("InputValidator", "validate_search_query", query,
             InputValidator_validate_search_query(query))

ApiValidatePath(file_path) ==
    Validate("InputValidator", "validate_file_path", file_path,
             InputValidator_validate_file_path(file_path))

NextValidators ==
    \/ \E limit \in ValLimits : ServiceValidateLimit(limit) \/ ApiValidateLimit(limit)
    \/ \E query \in ValQueries : ServiceValidateQuery(query) \/ ApiValidateQuery(query)
    \/ \E file_path \in ValPaths :
          ServiceValidatePath(file_path) \/ ApiValidatePath(file_path)

SpecValidators == InitHandler /\ [][NextValidators]_vars

\* C17: both validators accept an integer limit exactly when it is in 1..1000
\* and a string query exactly when its trimmed length is in 0..100; both
\* accept a string file path only if its trimmed length is in 1..999; and a
\* file path over the safe characters that the API-boundary validator accepts
\* is accepted by the service validator.
C17_ValidatorsAcceptTheSameBounds ==
    LET value == call.arg.value
        accepted == call.ret.is_valid
    IN /\ (call.op = "validate_limit_parameter" /\ value.isint) =>
             (accepted <=> value.n \in 1..1000)
       /\ (call.op = "validate_search_query" /\ value.isstr) =>
             (accepted <=> Len(strip(value.s)) \in 0..100)
       /\ (call.op = "validate_file_path" /\ value.isstr) =>
             (accepted => Len(strip(value.s)) \in 1..999)
       /\ (call.op = "validate_file_path" /\ call.arg.class = "InputValidator"
           /\ value.isstr /\ accepted) =>
             validate_file_path(value)

\* ------------------------------------------------------------- the scan run
\* config.LMS_BASE_PATH, as the characters of a path
LMS_BASE_PATH == <<"A">>

\* what the environment does to one file of the run: whether open() reads it,
\* how the php subprocess ends, what the search of the AST gives or whether it
\* raises, and whether Path.resolve() raises
ParserEnds ==
    {"ast", "empty_ast", "error_json", "invalid_json", "nonzero_returncode",
     "TimeoutExpired", "FileNotFoundError", "Exception"}

FoundDependencies ==
    {<<>>, <<Dependency_to_dict(Dep("instantiation", ContextBa))>>,
     <<Dependency_to_dict(Dep("instantiation", ContextBa)),
       Dependency_to_dict(Dep("static_call", Contexta_b))>>}

FileFates ==
    {[readable |-> TRUE, parser |-> end, found |-> Some(<<>>), resolves |-> TRUE] :
        end \in ParserEnds}
    \cup {[readable |-> TRUE, parser |-> "ast", found |-> Some(deps), resolves |-> r] :
            deps \in FoundDependencies, r \in BOOLEAN}
    \cup {[readable |-> FALSE, parser |-> "ast", found |-> Some(<<>>), resolves |-> TRUE],
          [readable |-> TRUE, parser |-> "ast", found |-> None, resolves |-> TRUE]}

\* PHPParserBridge.parse_file: the dict it returns
parse_file(fate) ==
    CASE fate.parser = "ast" -> [success |-> TRUE, ast |-> <<"name: Branch">>]
      [] fate.parser = "empty_ast" -> [success |-> TRUE, ast |-> <<>>]
      [] fate.parser = "error_json" -> [error |-> "Parse error"]
      [] fate.parser = "invalid_json" -> [error |-> "Invalid JSON from PHP parser"]
      [] fate.parser = "nonzero_returncode" -> [error |-> "PHP parser failed with code"]
      [] fate.parser = "TimeoutExpired" -> [error |-> "Parser timeout (30 seconds exceeded)"]
      [] fate.parser = "FileNotFoundError" -> [error |-> "PHP executable not found"]
      [] OTHER -> [error |-> "Unexpected subprocess error"]

AnalyzerRecord(file_path, dependencies, error) ==
    [file_path |-> file_path, relative_path |-> None, dependencies |-> dependencies,
     error |-> error, total_dependencies |-> Len(dependencies)]

\* an analyze_file that keeps going after a parser error
analyze_file_ignoring_parse_error(file_path, fate) ==
    IF ~fate.readable \/ IsNone(fate.found)
    THEN AnalyzerRecord(file_path, <<>>, Some("Analysis error"))
    ELSE AnalyzerRecord(file_path, fate.found.some, None)

\* BranchAnalyzer.analyze_file
analyze_file(file_path, fate) ==
    IF ~fate.readable THEN AnalyzerRecord(file_path, <<>>, Some("Analysis error"))
    ELSE LET parse_result == parse_file(fate)
         IN IF "error" \in DOMAIN parse_result
            THEN AnalyzerRecord(file_path, <<>>, Some(parse_result.error))
            ELSE IF parse_result.ast = <<>>
            THEN AnalyzerRecord(file_path, <<>>, Some("No AST returned from parser"))
            ELSE IF IsNone(fate.found)
            THEN AnalyzerRecord(file_path, <<>>, Some("Analysis error"))
            ELSE AnalyzerRecord(file_path, fate.found.some, None)

StartsWith(s, prefix) == Len(prefix) <= Len(s) /\ SubSeq(s, 1, Len(prefix)) = prefix

\* the body of the loop of analyze_branch for one file: the record appended
analyze_branch_record(file_path, fate) ==
    IF ~fate.resolves
    THEN [file_path |-> file_path, relative_path |-> Some(file_path),
          dependencies |-> <<>>, error |-> Some("Analysis failed"),
          total_dependencies |-> 0]
    ELSE [analyze_file(file_path, fate) EXCEPT !.relative_path =
             IF StartsWith(file_path, LMS_BASE_PATH)
             THEN Some(SubSeq(file_path, Len(LMS_BASE_PATH) + 1, Len(file_path)))
             ELSE Some(file_path)]

\* files[:limit]
SliceTo(files, limit) ==
    IF limit >= 0 THEN SubSeq(files, 1, Min(limit, Len(files)))
    ELSE SubSeq(files, 1, IF Len(files) + limit > 0 THEN Len(files) + limit ELSE 0)

ScannedPaths == {PathAb, PathbA}

ScanLists ==
    {files \in SeqsUpTo(ScannedPaths, MaxFiles) :
        \A i, j \in 1..Len(files) : i # j => files[i] # files[j]}

ScanLimits == {None, Some(1), Some(-1)}

Scanning == call.op = "analyze_branch" /\ call.outcome = "running"

\* analyze_branch up to the loop: scan, exit(1) on no files, apply --limit
StartScan(scanned, limit, fates) ==
    /\ call = NoCall
    /\ LET files == IF ~IsNone(limit) /\ limit.some # 0 /\ limit.some < Len(scanned)
                    THEN SliceTo(scanned, limit.some) ELSE scanned
       IN call' = [op |-> "analyze_branch",
                   arg |-> [files |-> files, fates |-> fates],
                   outcome |-> IF scanned = <<>> THEN "exit" ELSE "running",
                   cause |-> "none",
                   ret |-> [results |-> <<>>, files_with_dependencies |-> 0,
                            total_dependencies |-> 0]]
    /\ UNCHANGED <<now, disk, cfg, cache, access_times, analysis_result,
                   last_loaded_time, metrics>>

\* one turn of the loop over the files
AnalyzeNextFile ==
    /\ Scanning
    /\ Len(call.ret.results) < Len(call.arg.files)
    /\ LET file_path == call.arg.files[Len(call.ret.results) + 1]
           result == analyze_branch_record(file_path, call.arg.fates[file_path])
           counted == result.total_dependencies > 0
       IN call' = [call EXCEPT
                     !.ret.results = Append(@, result),
                     !.ret.files_with_dependencies = IF counted THEN @ + 1 ELSE @,
                     !.ret.total_dependencies = @ + result.total_dependencies]
    /\ UNCHANGED <<now, disk, cfg, cache, access_times, analysis_result,
                   last_loaded_time, metrics>>

\* the summary is built and dumped to the output file
WriteSummary ==
    /\ Scanning
    /\ Len(call.ret.results) = Len(call.arg.files)
    /\ disk' = [kind |-> "json",
                data |-> [analysis_metadata |->
                             [timestamp |-> strftime(now), analysis_time_seconds |-> 0,
                              base_path |-> LMS_BASE_PATH,
                              analyzed_folders |-> <<"src">>,
                              excluded_folders |-> <<>>,
                              total_files_analyzed |-> Len(call.arg.files),
                              files_with_dependencies |-> call.ret.files_with_dependencies,
                              total_dependencies_found |-> call.ret.total_dependencies],
                          files |-> call.ret.results],
                mtime |-> now]
    /\ call' = [call EXCEPT !.outcome = "ok"]
    /\ UNCHANGED <<now, cfg, cache, access_times, analysis_result, last_loaded_time,
                   metrics>>

NextScan ==
    \/ \E scanned \in ScanLists, limit \in ScanLimits,
          fates \in [ScannedPaths -> FileFates] : StartScan(scanned, limit, fates)
    \/ AnalyzeNextFile
    \/ WriteSummary
    \/ Tick

SpecScan == InitHandler /\ [][NextScan]_vars

\* the parse or the analysis of the file fails
FileFails(fate) ==
    \/ ~fate.readable
    \/ fate.parser # "ast"
    \/ IsNone(fate.found)
    \/ ~fate.resolves

\* C18: a scan run holds one record per file it has gone through, in the order
\* of the scan; the record of a file whose parse or analysis fails has its
\* error set and no dependencies; the failure does not end the run, and the
\* document the run writes holds the records of all its files.
C18_OneRecordPerFileAndFailuresKept ==
    call.op = "analyze_branch" =>
        LET files == call.arg.files
            results == call.ret.results
        IN /\ Len(results) <= Len(files)
           /\ \A i \in 1..Len(results) :
                 /\ results[i].file_path = files[i]
                 /\ FileFails(call.arg.fates[files[i]]) =>
                       /\ results[i].error # None
                       /\ results[i].dependencies = <<>>
                       /\ results[i].total_dependencies = 0
           /\ call.outcome \in {"running", "ok", "exit"}
           /\ call.outcome = "exit" => files = <<>>
           /\ call.outcome = "ok" =>
                 /\ Len(results) = Len(files)
                 /\ disk.kind = "json"
                 /\ disk.data.files = results

C18_Witness ==
    /\ call.op = "analyze_branch"
    /\ call.outcome = "ok"
    /\ Len(call.arg.files) = 2
    /\ FileFails(call.arg.fates[call.arg.files[1]])
    /\ ~FileFails(call.arg.fates[call.arg.files[2]])
    /\ call.ret.results[2].dependencies # <<>>
    /\ disk.data.files = call.ret.results

\* ------------------------------------------- the service over a small cache
\* a client that mixes the cached views with the two uncached lookups
LookupClient ==
    {"get_summary_statistics", "find_dependency_hotspots", "search_dependencies",
     "get_file_analysis"}

InitSmallCache ==
    /\ InitService
    /\ disk \in InitialDisks
    /\ cfg \in {[cache |-> "memory", max_size |-> n, metrics |-> m,
                 client |-> LookupClient] : n \in 1..MaxCacheSize, m \in BOOLEAN}

Lookup ==
    \/ \E query \in SvcQueries : SearchDependencies(query)
    \/ \E file_path \in SvcPaths : GetFileAnalysis(file_path)

NextSmallCache ==
    \/ GetSummaryStatistics
    \/ FindDependencyHotspots(IntArg(1))
    \/ Lookup
    \/ RefreshAnalysis
    \/ \E doc \in ExternalDocuments : ExternalWrite(doc)
    \/ Tick

SpecSmallCache == InitSmallCache /\ [][NextSmallCache]_vars

\* the keys of the derived views held in the cache
DerivedViewKeys(entries) == DictKeys(entries) \ {repository_cache_key}

\* the lookup answers from the result its own _get_analysis_result returned and
\* neither reads nor records a derived view
AnswersFromItsOwnResult ==
    /\ call'.outcome = "ok" =>
          /\ ~IsNone(analysis_result')
          /\ call'.ret = ExpectedAnswer(call', analysis_result'.some)
    /\ metrics'.cache_hits = metrics.cache_hits
    /\ metrics'.cache_misses = metrics.cache_misses
    /\ \A key \in DerivedViewKeys(cache) \cap DerivedViewKeys(cache') :
          /\ InMemoryCacheService_value([cache |-> cache', access_times |-> access_times'],
                                        key)
             = InMemoryCacheService_value([cache |-> cache, access_times |-> access_times],
                                          key)
          /\ AccessTime(access_times', key) = AccessTime(access_times, key)

\* C19: a search_dependencies or get_file_analysis call answers from the
\* result its own staleness check obtained, reads no stored derived view, and
\* leaves the set of derived-view keys in the cache as it was.
C19_LookupsLeaveDerivedViewKeysAsTheyWere ==
    [][Lookup => /\ AnswersFromItsOwnResult
                 /\ DerivedViewKeys(cache') = DerivedViewKeys(cache)]_vars

\* C19, amended: the call adds no derived-view key and changes none; when its
\* reload stores the loaded result in a full cache, one derived view (the
\* least recently used entry) is evicted.
C19_LookupsAddNoDerivedView ==
    [][Lookup => /\ AnswersFromItsOwnResult
                 /\ DerivedViewKeys(cache') \subseteq DerivedViewKeys(cache)
                 /\ Cardinality(DerivedViewKeys(cache) \ DerivedViewKeys(cache')) <= 1
                 /\ DerivedViewKeys(cache') # DerivedViewKeys(cache) =>
                       /\ Len(cache) >= cfg.max_size
                       /\ ~DictHas(cache, repository_cache_key)
                       /\ DictHas(cache', repository_cache_key)]_vars

C19_Witness ==
    /\ call.op \in {"search_dependencies", "get_file_analysis"}
    /\ call.outcome = "ok"
    /\ DerivedViewKeys(cache) # {}
    /\ DictHas(cache, repository_cache_key)

\* the document was modified after the held result was loaded
ModifiedSinceLoad ==
    /\ exists
    /\ ~IsNone(last_loaded_time)
    /\ disk.mtime > last_loaded_time.some

\* C20: every service query that answers has first resolved the current
\* result: it loads when none is held, reloads when the document's
\* last-modified time is greater than the load time, and keeps the held result
\* when it is not greater or the repository reports no modification time.
C20_EveryQueryResolvesTheCurrentResult ==
    [][(Query /\ call'.outcome = "ok") =>
          IF IsNone(analysis_result) \/ ModifiedSinceLoad
          THEN /\ ~IsNone(analysis_result')
               /\ last_loaded_time' = Some(now)
          ELSE /\ analysis_result' = analysis_result
               /\ last_loaded_time' = last_loaded_time]_vars

\* --------------------------------------- the staleness reload, step by step
\* _get_analysis_result with the repository's read and the recording of the
\* load time as separate steps, so that another process can write in between
ReloadQuery == StrArg(<<"b", "a">>)

Loading == call.op = "search_dependencies" /\ call.outcome = "loading"

\* a query starts: should_reload is evaluated, and when it is true the
\* repository reads the document
ReadDocument ==
    /\ ~Loading
    /\ IsNone(analysis_result) \/ should_reload_data(Current)
    /\ LET loaded == load_analysis_result(Current.c, now)
       IN /\ loaded.err = "none"
          /\ call' = [op |-> "search_dependencies", arg |-> [query |-> ReloadQuery],
                      outcome |-> "loading", cause |-> "none",
                      ret |-> RetResult(loaded.val)]
    /\ UNCHANGED <<now, disk, cfg, cache, access_times, analysis_result,
                   last_loaded_time, metrics>>

\* the loaded result is held, the load time is recorded and the query answers
RecordLoad ==
    /\ Loading
    /\ analysis_result' = Some(call.ret.result)
    /\ last_loaded_time' = Some(now)
    /\ call' = [call EXCEPT !.outcome = "ok",
                            !.ret = RetFiles(search_files(call.ret.result, ReloadQuery.s))]
    /\ UNCHANGED <<now, disk, cfg, cache, access_times, metrics>>

\* a query that finds the held result fresh
AnswerFromHeld ==
    /\ ~Loading
    /\ ~IsNone(analysis_result)
    /\ ~should_reload_data(Current)
    /\ call' = [op |-> "search_dependencies", arg |-> [query |-> ReloadQuery],
                outcome |-> "ok", cause |-> "none",
                ret |-> RetFiles(search_files(analysis_result.some, ReloadQuery.s))]
    /\ UNCHANGED <<now, disk, cfg, cache, access_times, analysis_result,
                   last_loaded_time, metrics>>

\* the scan rewrites the document with other content
DocumentChanges(result) ==
    /\ disk.kind # "mock"
    /\ disk.data # AnalysisResult_to_dict(result)
    /\ disk' = [kind |-> "json", data |-> AnalysisResult_to_dict(result), mtime |-> now]
    /\ UNCHANGED <<now, cfg, cache, access_times, analysis_result, last_loaded_time,
                   metrics, call>>

InitReload ==
    /\ InitService
    /\ disk \in InitialDisks
               \cup {[kind |-> "mock", data |-> AnalysisResult_to_dict(Doc1), mtime |-> 0]}
    /\ cfg = [cache |-> "none", max_size |-> DEFAULT_MAX_SIZE, metrics |-> FALSE,
              client |-> {"search_dependencies"}]

NextReload ==
    \/ ReadDocument
    \/ RecordLoad
    \/ AnswerFromHeld
    \/ \E result \in SavedResults : DocumentChanges(result)
    \/ Tick

SpecReload == InitReload /\ [][NextReload]_vars

\* the service would answer the next query from the held result
HeldJudgedFresh ==
    /\ ~Loading
    /\ ~IsNone(analysis_result)
    /\ ~should_reload_data(Current)

\* C21: a query reloads only when the document has changed since the load
\* before (so between two changes there is at most one reload), and whenever
\* the service judges the held result fresh it holds the document's content:
\* no change is skipped, also not one made between the repository's read and
\* the recording of the load time.
C21_OneReloadPerChangeNoChangeSkipped ==
    /\ [][(RecordLoad /\ ~IsNone(last_loaded_time)) =>
             disk.mtime > last_loaded_time.some]_vars
    /\ [](HeldJudgedFresh /\ disk.kind = "json" =>
             analysis_result.some = AnalysisResult_from_dict(disk.data))

\* ----------------------------------------------- the cached views side by side
ViewLimits == {IntArg(1), IntArg(2)}

ViewTypes == {TypeArg("enum", "instantiation"), TypeArg("enum", "static_call")}

CachedOperations ==
    {"get_summary_statistics", "find_dependency_hotspots", "get_dependencies_by_type"}

InitViews ==
    /\ InitService
    /\ disk \in InitialDisks
    /\ cfg \in {[cache |-> "memory", max_size |-> DEFAULT_MAX_SIZE, metrics |-> FALSE,
                 client |-> ops] : ops \in {c \in SUBSET CachedOperations :
                                                Cardinality(c) = 2}}

CachedQuery ==
    \/ GetSummaryStatistics
    \/ \E limit \in ViewLimits : FindDependencyHotspots(limit)
    \/ \E dep_type \in ViewTypes : GetDependenciesByType(dep_type)

NextViews ==
    \/ CachedQuery
    \/ /\ disk.data # AnalysisResult_to_dict(Doc2)
       /\ ExternalWrite([kind |-> "json", data |-> AnalysisResult_to_dict(Doc2)])
    \/ Tick

SpecViews == InitViews /\ [][NextViews]_vars

\* the key and the view of a call of a cached operation
CallKey(c) ==
    CASE c.op = "get_summary_statistics" -> summary_cache_key
      [] c.op = "find_dependency_hotspots" -> hotspots_cache_key(c.arg.limit.n)
      [] c.op = "get_dependencies_by_type" -> dependencies_cache_key(c.arg.dep_type.value)

\* every result the service can have loaded in these runs
LoadableResults == {Doc1, Doc2} \cup {create_empty_result(t) : t \in 0..MaxTime}

CurrentCache == [cache |-> cache, access_times |-> access_times]

\* the keys of different operations and parameters are different keys
KeyedLimits == 1..30

KeysAreDistinct ==
    LET hotspots == {hotspots_cache_key(n) : n \in KeyedLimits}
        dependencies == {dependencies_cache_key(t) : t \in DependencyType}
    IN /\ Cardinality(hotspots) = Cardinality(KeyedLimits)
       /\ Cardinality(dependencies) = Cardinality(DependencyType)
       /\ Cardinality({summary_cache_key, repository_cache_key} \cup hotspots
                      \cup dependencies)
          = 2 + Cardinality(KeyedLimits) + Cardinality(DependencyType)

\* C22: with a cache present, a cached operation's answer is stored under the
\* key of its operation and parameter; a call whose key is in the cache returns
\* the stored value and calls neither load nor the staleness check; and no
\* call returns the value stored for another limit or type or the repository's
\* cached document: its answer is its own view of a result.
C22_ViewsCachedUnderTheirOwnKey ==
    /\ [](KeysAreDistinct
          /\ ((call.op \in CachedOperations /\ call.outcome = "ok") =>
                /\ InMemoryCacheService_value(CurrentCache, CallKey(call)) = Some(call.ret)
                /\ \E r \in LoadableResults : call.ret = ExpectedAnswer(call, r)))
    /\ [][\A c \in {call'} :
            (CachedQuery /\ c.op \in CachedOperations /\ c.outcome \in {"ok", "AnalysisError"}
             /\ DictHas(cache, CallKey(c))) =>
                /\ Some(c.ret) = InMemoryCacheService_value(CurrentCache, CallKey(c))
                /\ analysis_result' = analysis_result
                /\ last_loaded_time' = last_loaded_time
                /\ DictKeys(cache') = DictKeys(cache)]_vars

C22_Witness ==
    /\ call.op = "find_dependency_hotspots"
    /\ call.arg.limit.n = 2
    /\ Len(call.ret.files) = 2
    /\ DictHas(cache, hotspots_cache_key(1))
    /\ DictHas(cache, dependencies_cache_key("static_call"))
    /\ DictHas(cache, repository_cache_key)

\* ------------------------------------------ one repository, no other writer
\* JsonAnalysisDataRepository constructed with an InMemoryCacheService; the only
\* writer of the document is this repository's save_analysis_result
InitRepository ==
    /\ InitService
    /\ disk \in InitialDisks
    /\ cfg = [cache |-> "memory", max_size |-> DEFAULT_MAX_SIZE, metrics |-> FALSE,
              client |-> {}]

NextRepository ==
    \/ LoadAnalysisResult
    \/ \E result \in SavedResults, io \in {"ok", "open_fails", "write_fails"} :
          SaveAnalysisResult(result, io)
    \/ InvalidateCache
    \/ Tick

SpecRepository == InitRepository /\ [][NextRepository]_vars

\* what load_analysis_result gives when it reads the document, the cache aside
ReadFromDisk == load_analysis_result(InMemoryCacheService_clear(CurrentCache), now)

CachedDocument == cache_value(CurrentCache, repository_cache_key)

SaveFailed == call'.op = "save_analysis_result" /\ call'.outcome = "RepositoryError"

\* C23: on one repository with a cache and no other writer, the entry under the
\* document key, when present, is what reading the document from disk gives; a
\* save that fails with RepositoryError leaves the document and the entry as
\* they were; invalidate_cache removes that entry only and leaves the document
C23_CachedEntryIsTheDocumentOnDisk ==
    /\ [](~IsNone(CachedDocument) =>
            /\ ReadFromDisk.err = "none"
            /\ exists
            /\ CachedDocument.some.result = ReadFromDisk.val)
    /\ [][SaveFailed => disk' = disk /\ cache' = cache]_vars
    /\ [][call'.op = "invalidate_cache" =>
             /\ disk' = disk
             /\ cache' = DictDel(cache, repository_cache_key)]_vars

\* a save whose write failed after open() truncated the file, the entry of the
\* earlier load still cached
C23_FailedWriteUnderCachedEntry ==
    /\ call.op = "save_analysis_result"
    /\ call.outcome = "RepositoryError"
    /\ ~IsNone(CachedDocument)
    /\ disk.kind = "invalid_json"

\* ------------------------------------------------ the service with metrics
\* DependencyAnalysisService wired with InMemoryCacheService and
\* SimpleMetricsCollector; a run's client issues one kind of query, up to
\* MaxSamples metric events
MaxSamples == 4

InitMetrics ==
    /\ InitService
    /\ disk \in InitialDisks
    /\ cfg \in {[cache |-> "memory", max_size |-> DEFAULT_MAX_SIZE, metrics |-> TRUE,
                 client |-> {operation}] : operation \in QueryOperations}

MeasuredQuery ==
    /\ MetricEvents(metrics) < MaxSamples
    /\ \/ Served("get_summary_statistics", ArgNone,
                 get_summary_statistics(Current, now))
       \/ \E limit \in SvcLimits :
             Served("find_dependency_hotspots", [limit |-> limit],
                    find_dependency_hotspots(Current, now, limit))
       \/ \E dep_type \in SvcTypes :
             Served("get_dependencies_by_type", [dep_type |-> dep_type],
                    get_dependencies_by_type(Current, now, dep_type))
       \/ \E query \in SvcQueries :
             Served("search_dependencies", [query |-> query],
                    search_dependencies(Current, now, query))
       \/ \E file_path \in SvcPaths :
             Served("get_file_analysis", [file_path |-> file_path],
                    get_file_analysis(Current, now, file_path))

NextMetrics ==
    \/ MeasuredQuery
    \/ Tick

SpecMetrics == InitMetrics /\ [][NextMetrics]_vars

\* len(operation_times[operation])
LatencySamples(m, operation) ==
    IF DictHas(m.operation_times, operation)
    THEN Len(m.operation_times[DictIndex(m.operation_times, operation)].value)
    ELSE 0

HitsAndMisses(m) == SumValues(m.cache_hits) + SumValues(m.cache_misses)

\* the step is a query call: calls leave the clock alone, Tick advances it
QueryStep == now' = now /\ call'.op \in QueryOperations

\* C24: with metrics present every successful query call records exactly one
\* latency sample under the operation's name, also when it is answered from the
\* cache or finds no file, and every call of a cached operation that passed
\* validation records exactly one cache hit or miss
C24_OneLatencySampleAndOneHitOrMissPerCall ==
    [][QueryStep =>
          /\ call'.outcome = "ok" =>
                LatencySamples(metrics', call'.op) =
                    LatencySamples(metrics, call'.op) + 1
          /\ (call'.op \in CachedOperations /\ call'.outcome # "ValueError") =>
                HitsAndMisses(metrics') = HitsAndMisses(metrics) + 1]_vars

\* a cached operation answered from the cache: a hit and no latency sample
C24_AnsweredFromCache ==
    /\ call.op = "get_summary_statistics"
    /\ call.outcome = "ok"
    /\ SumValues(metrics.cache_hits) = 1
    /\ LatencySamples(metrics, "get_summary_statistics") = 1

\* ------------------------------ requests sharing one InMemoryCacheService
\* Each request runs get, set, delete or clear one statement at a time; no lock
\* orders the statements of different requests.  call holds, per request, the
\* statement it is at (pc), its key argument, the key delete was called with
\* (victim), where delete returns to (resume) and how its last call ended.
NumRequests == 2

Requests == 1..NumRequests

SharedKeys == {"k1", "k2"}

SharedMaxSize == 1

Idle == [pc |-> "idle", key |-> "k1", victim |-> "k1", resume |-> "idle",
         outcome |-> "ok"]

InitShared ==
    /\ now = 0
    /\ disk = [kind |-> "missing", data |-> NoData, mtime |-> 0]
    /\ cfg = [cache |-> "memory", max_size |-> SharedMaxSize, metrics |-> FALSE,
              client |-> {}]
    /\ cache = <<>>
    /\ access_times = <<>>
    /\ analysis_result = None
    /\ last_loaded_time = None
    /\ metrics = NoMetrics
    /\ call = [r \in Requests |-> Idle]

\* request r moves to statement pc with the given locals and leaves the rest
At(r, pc) == call[r].pc = pc

Goto(r, pc) == call' = [call EXCEPT ![r].pc = pc]

Return(r, outcome) == call' = [call EXCEPT ![r].pc = "idle", ![r].outcome = outcome]

SharedFrame == UNCHANGED <<now, disk, cfg, analysis_result, last_loaded_time, metrics>>

\* a request calls one of the four methods
Begin(r) ==
    /\ At(r, "idle")
    /\ \/ \E key \in SharedKeys :
             call' = [call EXCEPT ![r] = [Idle EXCEPT !.pc = "get_test", !.key = key]]
       \/ \E key \in SharedKeys :
             call' = [call EXCEPT ![r] = [Idle EXCEPT !.pc = "set_test", !.key = key]]
       \/ \E key \in SharedKeys :
             call' = [call EXCEPT ![r] = [Idle EXCEPT !.pc = "delete_test",
                                                      !.victim = key]]
       \/ call' = [call EXCEPT ![r] = [Idle EXCEPT !.pc = "clear_cache"]]
    /\ UNCHANGED <<cache, access_times>>
    /\ SharedFrame

\* get: if key in self.cache
GetTest(r) ==
    /\ At(r, "get_test")
    /\ IF DictHas(cache, call[r].key) THEN Goto(r, "get_touch") ELSE Return(r, "ok")
    /\ UNCHANGED <<cache, access_times>>
    /\ SharedFrame

\* get: self.access_times[key] = datetime.now().timestamp()
GetTouch(r) ==
    /\ At(r, "get_touch")
    /\ access_times' = DictPut(access_times, [key |-> call[r].key, time |-> now])
    /\ Goto(r, "get_return")
    /\ UNCHANGED cache
    /\ SharedFrame

\* get: return self.cache[key]
GetReturn(r) ==
    /\ At(r, "get_return")
    /\ Return(r, IF DictHas(cache, call[r].key) THEN "ok" ELSE "KeyError")
    /\ UNCHANGED <<cache, access_times>>
    /\ SharedFrame

\* set: if len(self.cache) >= self.max_size and key not in self.cache
SetTest(r) ==
    /\ At(r, "set_test")
    /\ IF Len(cache) >= cfg.max_size /\ ~DictHas(cache, call[r].key)
       THEN Goto(r, "evict_test")
       ELSE Goto(r, "set_store")
    /\ UNCHANGED <<cache, access_times>>
    /\ SharedFrame

\* _evict_lru: if not self.access_times: return
EvictTest(r) ==
    /\ At(r, "evict_test")
    /\ IF access_times = <<>> THEN Goto(r, "set_store") ELSE Goto(r, "evict_min")
    /\ UNCHANGED <<cache, access_times>>
    /\ SharedFrame

\* _evict_lru: lru_key = min(...); self.delete(lru_key).  min() of a dict
\* another request emptied raises ValueError
EvictMin(r) ==
    /\ At(r, "evict_min")
    /\ IF access_times = <<>> THEN Return(r, "ValueError")
       ELSE call' = [call EXCEPT ![r].pc = "delete_test",
                                 ![r].victim = lru_key(access_times),
                                 ![r].resume = "set_store"]
    /\ UNCHANGED <<cache, access_times>>
    /\ SharedFrame

\* delete: if key in self.cache
DeleteTest(r) ==
    /\ At(r, "delete_test")
    /\ IF DictHas(cache, call[r].victim) THEN Goto(r, "delete_value")
       ELSE Goto(r, call[r].resume)
    /\ UNCHANGED <<cache, access_times>>
    /\ SharedFrame

\* delete: del self.cache[key]
DeleteValue(r) ==
    /\ At(r, "delete_value")
    /\ IF DictHas(cache, call[r].victim)
       THEN cache' = DictDel(cache, call[r].victim) /\ Goto(r, "delete_time")
       ELSE UNCHANGED cache /\ Return(r, "KeyError")
    /\ UNCHANGED access_times
    /\ SharedFrame

\* delete: del self.access_times[key]
DeleteTime(r) ==
    /\ At(r, "delete_time")
    /\ IF DictHas(access_times, call[r].victim)
       THEN /\ access_times' = DictDel(access_times, call[r].victim)
            /\ Goto(r, call[r].resume)
       ELSE UNCHANGED access_times /\ Return(r, "KeyError")
    /\ UNCHANGED cache
    /\ SharedFrame

\* set: self.cache[key] = value
SetStore(r) ==
    /\ At(r, "set_store")
    /\ cache' = DictPut(cache, [key |-> call[r].key, value |-> r])
    /\ Goto(r, "set_time")
    /\ UNCHANGED access_times
    /\ SharedFrame

\* set: self.access_times[key] = datetime.now().timestamp()
SetTime(r) ==
    /\ At(r, "set_time")
    /\ access_times' = DictPut(access_times, [key |-> call[r].key, time |-> now])
    /\ Return(r, "ok")
    /\ UNCHANGED cache
    /\ SharedFrame

\* clear: self.cache.clear()
ClearCache(r) ==
    /\ At(r, "clear_cache")
    /\ cache' = <<>>
    /\ Goto(r, "clear_times")
    /\ UNCHANGED access_times
    /\ SharedFrame

\* clear: self.access_times.clear()
ClearTimes(r) ==
    /\ At(r, "clear_times")
    /\ access_times' = <<>>
    /\ Return(r, "ok")
    /\ UNCHANGED cache
    /\ SharedFrame

NextShared ==
    \/ \E r \in Requests :
          \/ Begin(r)
          \/ GetTest(r) \/ GetTouch(r) \/ GetReturn(r)
          \/ SetTest(r) \/ EvictTest(r) \/ EvictMin(r) \/ SetStore(r) \/ SetTime(r)
          \/ DeleteTest(r) \/ DeleteValue(r) \/ DeleteTime(r)
          \/ ClearCache(r) \/ ClearTimes(r)
    \/ Tick

SpecShared == InitShared /\ [][NextShared]_vars

AllIdle == \A r \in Requests : At(r, "idle")

\* C25: requests interleaving get, set, delete and clear on one shared
\* InMemoryCacheService never hold more than max_size entries, leave the keys of
\* the values and of the access times the same whenever no call is under way, and
\* no call fails because another request removed the key it had just tested
C25_SharedCacheKeepsItsInvariants ==
    /\ Len(cache) <= cfg.max_size
    /\ AllIdle => DictKeys(cache) = DictKeys(access_times)
    /\ \A r \in Requests : call[r].outcome = "ok"

\* get found its key, another request deleted it, and get's return raised
C25_GetFailsOnKeyRemovedByAnother ==
    /\ \E r \in Requests : At(r, "idle") /\ call[r].outcome = "KeyError"
    /\ AllIdle

\* --------------------------- requests sharing one SimpleMetricsCollector
\* Each request makes one call of one recording method, for the same key,
\* operation and error type, one statement part at a time: the read of the old
\* value and the store of the new one are separate steps.  call holds, per
\* request, the method, the step it is at and the value it read (seen).
RecordingMethods ==
    {"record_cache_hit", "record_cache_miss", "record_error", "record_analysis_time"}

CounterKey == summary_cache_key

CounterOperation == "get_summary_statistics"

CounterError == <<CounterOperation, "AnalysisError">>

NotCalled == [pc |-> "idle", method |-> "none", seen |-> 0]

InitCounters ==
    /\ now = 0
    /\ disk = [kind |-> "missing", data |-> NoData, mtime |-> 0]
    /\ cfg = [cache |-> "none", max_size |-> DEFAULT_MAX_SIZE, metrics |-> TRUE,
              client |-> {}]
    /\ cache = <<>>
    /\ access_times = <<>>
    /\ analysis_result = None
    /\ last_loaded_time = None
    /\ metrics = NoMetrics
    /\ call = [r \in Requests |-> NotCalled]

CountersFrame ==
    UNCHANGED <<now, disk, cfg, cache, access_times, analysis_result, last_loaded_time>>

\* the counter dict a counting method works on
CounterOf(m, method) ==
    CASE method = "record_cache_hit" -> m.cache_hits
      [] method = "record_cache_miss" -> m.cache_misses
      [] method = "record_error" -> m.errors

CounterKeyOf(method) == IF method = "record_error" THEN CounterError ELSE CounterKey

WithCounter(m, method, d) ==
    CASE method = "record_cache_hit" -> [m EXCEPT !.cache_hits = d]
      [] method = "record_cache_miss" -> [m EXCEPT !.cache_misses = d]
      [] method = "record_error" -> [m EXCEPT !.errors = d]

\* a request enters one of the recording methods
CallRecord(r) ==
    /\ call[r].pc = "idle"
    /\ \E method \in RecordingMethods :
          call' = [call EXCEPT ![r] =
                     [pc |-> IF method = "record_analysis_time" THEN "time_test"
                             ELSE "read",
                      method |-> method, seen |-> 0]]
    /\ UNCHANGED metrics
    /\ CountersFrame

\* the right-hand side: self.cache_hits.get(key, 0) + 1
ReadCounter(r) ==
    /\ call[r].pc = "read"
    /\ call' = [call EXCEPT ![r].pc = "write",
                            ![r].seen = Count(CounterOf(metrics, call[r].method),
                                              CounterKeyOf(call[r].method))]
    /\ UNCHANGED metrics
    /\ CountersFrame

\* the store: self.cache_hits[key] = <the value computed>
WriteCounter(r) ==
    /\ call[r].pc = "write"
    /\ metrics' = WithCounter(metrics, call[r].method,
                     DictPut(CounterOf(metrics, call[r].method),
                             [key |-> CounterKeyOf(call[r].method),
                              value |-> call[r].seen + 1]))
    /\ call' = [call EXCEPT ![r].pc = "done"]
    /\ CountersFrame

\* record_analysis_time: if operation not in self.operation_times
TimeTest(r) ==
    /\ call[r].pc = "time_test"
    /\ call' = [call EXCEPT ![r].pc = IF DictHas(metrics.operation_times, CounterOperation)
                                      THEN "time_append" ELSE "time_init"]
    /\ UNCHANGED metrics
    /\ CountersFrame

\* record_analysis_time: self.operation_times[operation] = []
TimeInit(r) ==
    /\ call[r].pc = "time_init"
    /\ metrics' = [metrics EXCEPT !.operation_times =
                      DictPut(@, [key |-> CounterOperation, value |-> <<>>])]
    /\ call' = [call EXCEPT ![r].pc = "time_append"]
    /\ CountersFrame

\* record_analysis_time: self.operation_times[operation].append(duration_seconds)
TimeAppend(r) ==
    /\ call[r].pc = "time_append"
    /\ metrics' = [metrics EXCEPT !.operation_times =
                      DictPut(@, [key |-> CounterOperation,
                                  value |-> Append(@[DictIndex(@, CounterOperation)].value,
                                                   0)])]
    /\ call' = [call EXCEPT ![r].pc = "done"]
    /\ CountersFrame

NextCounters ==
    \E r \in Requests :
       \/ CallRecord(r)
       \/ ReadCounter(r)
       \/ WriteCounter(r)
       \/ TimeTest(r)
       \/ TimeInit(r)
       \/ TimeAppend(r)

SpecCounters == InitCounters /\ [][NextCounters]_vars

\* how many of the requests called the method
Calls(method) == Cardinality({r \in Requests : call[r].method = method})

AllRecorded == \A r \in Requests : call[r].pc = "done"

\* C26: when N concurrent record_cache_hit, record_cache_miss or record_error
\* calls for one key have all returned the counter has grown by exactly N, and N
\* concurrent record_analysis_time calls leave exactly N samples
C26_ConcurrentRecordsAreAllCounted ==
    AllRecorded =>
       /\ \A method \in RecordingMethods \ {"record_analysis_time"} :
             Count(CounterOf(metrics, method), CounterKeyOf(method)) = Calls(method)
       /\ LatencySamples(metrics, CounterOperation) = Calls("record_analysis_time")

\* both requests recorded a hit for the key and both have returned
C26_TwoHitsRecorded ==
    /\ AllRecorded
    /\ Calls("record_cache_hit") = NumRequests
    /\ Count(metrics.cache_hits, CounterKey) = 1

\* --------------------- requests sharing one BranchDependencyAnalysisService
\* Each request runs a query's _get_analysis_result, or refresh_analysis, one
\* statement at a time on the service's two attributes; the service is wired
\* without a cache.  call holds, per request, the method, the statement it is
\* at, the modification time it read and how its last call ended.
NotServing == [pc |-> "idle", method |-> "none", last_modified |-> 0,
               outcome |-> "ok", cause |-> "none", held |-> None]

InitRefresh ==
    /\ now = 0
    /\ disk \in InitialDisks
    /\ cfg = [cache |-> "none", max_size |-> DEFAULT_MAX_SIZE, metrics |-> FALSE,
              client |-> {}]
    /\ cache = <<>>
    /\ access_times = <<>>
    /\ analysis_result = None
    /\ last_loaded_time = None
    /\ metrics = NoMetrics
    /\ call = [r \in Requests |-> NotServing]

Step(r, pc) == call' = [call EXCEPT ![r].pc = pc]

\* the call of request r ends
Finish(r, outcome, cause, held) ==
    call' = [call EXCEPT ![r].pc = "idle", ![r].outcome = outcome, ![r].cause = cause,
                         ![r].held = held]

ServiceFrame == UNCHANGED <<now, disk, cfg, cache, access_times, metrics>>

\* a request calls a query or refresh_analysis
Enter(r) ==
    /\ At(r, "idle")
    /\ \/ call' = [call EXCEPT ![r] = [NotServing EXCEPT !.pc = "held_test",
                                                         !.method = "query"]]
       \/ call' = [call EXCEPT ![r] = [NotServing EXCEPT !.pc = "drop_result",
                                                         !.method = "refresh_analysis"]]
    /\ UNCHANGED <<analysis_result, last_loaded_time>>
    /\ ServiceFrame

\* refresh_analysis: self._analysis_result = None
DropResult(r) ==
    /\ At(r, "drop_result")
    /\ analysis_result' = None
    /\ Step(r, "drop_time")
    /\ UNCHANGED last_loaded_time
    /\ ServiceFrame

\* refresh_analysis: self._last_loaded_time = None, then (no cache to clear)
\* the call of _get_analysis_result
DropTime(r) ==
    /\ At(r, "drop_time")
    /\ last_loaded_time' = None
    /\ Step(r, "held_test")
    /\ UNCHANGED analysis_result
    /\ ServiceFrame

\* _get_analysis_result: self._analysis_result is None or ...
HeldTest(r) ==
    /\ At(r, "held_test")
    /\ IF IsNone(analysis_result) THEN Step(r, "load") ELSE Step(r, "loaded_test")
    /\ UNCHANGED <<analysis_result, last_loaded_time>>
    /\ ServiceFrame

\* _should_reload_data: if self._last_loaded_time is None: return True
LoadedTest(r) ==
    /\ At(r, "loaded_test")
    /\ IF IsNone(last_loaded_time) THEN Step(r, "load") ELSE Step(r, "read_modified")
    /\ UNCHANGED <<analysis_result, last_loaded_time>>
    /\ ServiceFrame

\* _should_reload_data: last_modified = ...; if last_modified is None: return False
ReadModified(r) ==
    /\ At(r, "read_modified")
    /\ IF IsNone(get_last_modified) THEN Step(r, "return_held")
       ELSE call' = [call EXCEPT ![r].pc = "compare",
                                 ![r].last_modified = get_last_modified.some]
    /\ UNCHANGED <<analysis_result, last_loaded_time>>
    /\ ServiceFrame

\* _should_reload_data: return last_modified > self._last_loaded_time; a float
\* compared with None raises TypeError, which the caller wraps
Compare(r) ==
    /\ At(r, "compare")
    /\ IF IsNone(last_loaded_time) THEN Finish(r, "AnalysisError", "TypeError", None)
       ELSE IF call[r].last_modified > last_loaded_time.some THEN Step(r, "load")
       ELSE Step(r, "return_held")
    /\ UNCHANGED <<analysis_result, last_loaded_time>>
    /\ ServiceFrame

\* _get_analysis_result: self._analysis_result = self.repository.load_analysis_result()
Load(r) ==
    /\ At(r, "load")
    /\ LET loaded == load_analysis_result(Current.c, now)
       IN IF loaded.err # "none"
          THEN /\ Finish(r, "AnalysisError", loaded.err, None)
               /\ UNCHANGED analysis_result
          ELSE /\ analysis_result' = Some(loaded.val)
               /\ Step(r, "stamp")
    /\ UNCHANGED last_loaded_time
    /\ ServiceFrame

\* _get_analysis_result: self._last_loaded_time = time.time()
Stamp(r) ==
    /\ At(r, "stamp")
    /\ last_loaded_time' = Some(now)
    /\ Step(r, "return_held")
    /\ UNCHANGED analysis_result
    /\ ServiceFrame

\* _get_analysis_result: return self._analysis_result.  A query goes on to read
\* the result's files: on None that is AttributeError, which it wraps
ReturnHeld(r) ==
    /\ At(r, "return_held")
    /\ IF call[r].method = "query" /\ IsNone(analysis_result)
       THEN Finish(r, "AnalysisError", "AttributeError", None)
       ELSE Finish(r, "ok", "none", analysis_result)
    /\ UNCHANGED <<analysis_result, last_loaded_time>>
    /\ ServiceFrame

NextRefresh ==
    \/ \E r \in Requests :
          \/ Enter(r)
          \/ DropResult(r) \/ DropTime(r)
          \/ HeldTest(r) \/ LoadedTest(r) \/ ReadModified(r) \/ Compare(r)
          \/ Load(r) \/ Stamp(r) \/ ReturnHeld(r)
    \/ \E result \in SavedResults : DocumentChanges(result)
    \/ Tick

SpecRefresh == InitRefresh /\ [][NextRefresh]_vars

\* C27: a query that runs while refresh_analysis or another request's staleness
\* reload runs always gets a complete result from the held-result reference,
\* never an absent one, and does not fail on the attributes the other request
\* is resetting
C27_ConcurrentQueryNeverGetsAbsentResult ==
    \A r \in Requests :
       (call[r].method = "query" /\ At(r, "idle")) =>
          /\ call[r].cause \notin {"AttributeError", "TypeError"}
          /\ call[r].outcome = "ok" => ~IsNone(call[r].held)

\* a query judged the held result fresh, a refresh reset the reference, and the
\* query returned the absent reference
C27_QueryReturnedAbsentResult ==
    \E r \in Requests :
       /\ call[r].method = "query"
       /\ At(r, "idle")
       /\ call[r].cause = "AttributeError"

\* ----------------------- cached views while the document is saved and reloaded
\* the service of InitViews, whose repository also saves a new document
NextSavedViews ==
    \/ CachedQuery
    \/ /\ disk.data # AnalysisResult_to_dict(Doc2)
       /\ SaveAnalysisResult(Doc2, "ok")
    \/ /\ disk.data # AnalysisResult_to_dict(Doc2)
       /\ ExternalWrite([kind |-> "json", data |-> AnalysisResult_to_dict(Doc2)])
    \/ Tick

SpecSavedViews == InitViews /\ [][NextSavedViews]_vars

\* the views the cached operations of SpecViews store, and the key of each
CachedViews ==
    {[of |-> "summary"]}
        \cup {[of |-> "hotspots", limit |-> limit.n] : limit \in ViewLimits}
        \cup {[of |-> "dependencies", dep_type |-> dep_type.value] : dep_type \in ViewTypes}

ViewKey(view) ==
    CASE view.of = "summary" -> summary_cache_key
      [] view.of = "hotspots" -> hotspots_cache_key(view.limit)
      [] view.of = "dependencies" -> dependencies_cache_key(view.dep_type)

\* C28: after any single-threaded sequence of queries, saves, document changes
\* and reloads every derived view in the cache is the view of the result the
\* service holds: a reload leaves no view of the previous result behind
C28_CachedViewsAreViewsOfTheHeldResult ==
    ~IsNone(analysis_result) =>
       \A view \in CachedViews :
          DictHas(cache, ViewKey(view)) =>
             cache_value(CurrentCache, ViewKey(view))
                = Some(compute_view(view, analysis_result.some))

\* a view computed before the save is still cached after the reload that
\* another operation's miss triggered
C28_ViewOfPreviousResultCached ==
    /\ ~IsNone(analysis_result)
    /\ analysis_result.some = Doc2
    /\ call.op = "find_dependency_hotspots"
    /\ DictHas(cache, summary_cache_key)
    /\ cache_value(CurrentCache, summary_cache_key)
          = Some(compute_view([of |-> "summary"], Doc1))

\* ------------------------------------------------- loads that fail
\* the step is a service call in which the repository's load raised
LoadFailed == now' = now /\ call' # call /\ call'.cause = "RepositoryError"

\* _get_analysis_result would call the repository
WouldLoad == IsNone(analysis_result) \/ should_reload_data(Current)

C29_RefreshFailed ==
    /\ call.op = "refresh_analysis"
    /\ call.cause = "RepositoryError"
    /\ IsNone(analysis_result)

\* ------------------------------------ what BranchAnalyzer emits, and its load
\* The AST text is a list of lines; of a line the analyzer's patterns see
\* whether it names a class containing "Branch", which node word it holds and
\* whether it holds a line-number field.  The source is the list of its lines.
MaxAstLines == 2

MaxSourceLines == 2

NodeWords ==
    {"expr_new", "staticcall", "stmt_use", "param(", "instanceof", "classconstfetch",
     "stmt_class"}

AstLines ==
    {[branch |-> TRUE, node |-> "name", lineno |-> None]}
        \cup {[branch |-> FALSE, node |-> word, lineno |-> None] : word \in NodeWords}
        \cup {[branch |-> FALSE, node |-> "value", lineno |-> Some(n)] :
                n \in 0..(MaxSourceLines + 1)}

AstStrings == SeqsUpTo(AstLines, MaxAstLines)

SourceLines == {<<>>, <<" ">>, ContextBa}

SourceCodes == SeqsUpTo(SourceLines, MaxSourceLines) \ {<<>>}

\* BranchAnalyzer._contains_branch_reference
contains_branch_reference(ast_line) == ast_line.branch

\* BranchAnalyzer._determine_dependency_type: the words of the lines from five
\* before to two after, tested in the order of the elif chain
determine_dependency_type(all_lines, current_index) ==
    LET context == {all_lines[i].node :
                       i \in Max(1, current_index - 5)..Min(Len(all_lines),
                                                             current_index + 2)}
    IN IF "expr_new" \in context THEN "instantiation"
       ELSE IF "staticcall" \in context THEN "static_call"
       ELSE IF "stmt_use" \in context THEN "use_statement"
       ELSE IF "param(" \in context THEN "type_hint"
       ELSE IF "instanceof" \in context THEN "instanceof"
       ELSE IF "classconstfetch" \in context THEN "class_constant"
       ELSE "class_reference"

\* BranchAnalyzer._extract_line_number: the first line-number field among the
\* lines from three before to two after, 0 when there is none
extract_line_number(ast_lines, current_index) ==
    LET search_range == Max(1, current_index - 3)..Min(Len(ast_lines), current_index + 2)
        found == {i \in search_range : ~IsNone(ast_lines[i].lineno)}
    IN IF found = {} THEN 0
       ELSE ast_lines[CHOOSE i \in found : \A j \in found : i <= j].lineno.some

\* BranchAnalyzer._get_line_context
get_line_context(source_code, line_num) ==
    IF 1 <= line_num /\ line_num <= Len(source_code)
    THEN strip(source_code[line_num])
    ELSE <<"L", "i", "n", "e", " ">> \o Decimal(line_num)

\* BranchAnalyzer._find_dependencies_in_ast_string, each BranchDependency as
\* its to_dict
find_dependencies_in_ast_string(ast_string, source_code) ==
    LET Names(i) == contains_branch_reference(ast_string[i])
        hits == SelectSeq([i \in 1..Len(ast_string) |-> i], Names)
    IN [k \in 1..Len(hits) |->
          LET dependency_type == determine_dependency_type(ast_string, hits[k])
              line_num == extract_line_number(ast_string, hits[k])
          IN [type |-> dependency_type,
              line |-> line_num,
              context |-> get_line_context(source_code, line_num),
              details |-> [dependency_type |-> dependency_type]]]

\* analyze_file on a file the parser returned an AST for
EmitDependencies(ast_string, source_code) ==
    /\ call = NoCall
    /\ call' = [op |-> "analyze_file",
                arg |-> [ast |-> ast_string, source_code |-> source_code],
                outcome |-> "ok", cause |-> "none",
                ret |-> [dependencies |->
                            find_dependencies_in_ast_string(ast_string, source_code)]]
    /\ UNCHANGED <<now, disk, cfg, cache, access_times, analysis_result,
                   last_loaded_time, metrics>>

\* analyze_branch writes the document of the one-file run
WriteScanDocument ==
    /\ call.op = "analyze_file"
    /\ disk' = [kind |-> "json",
                data |-> [analysis_metadata |->
                             [timestamp |-> strftime(now), analysis_time_seconds |-> 0,
                              base_path |-> LMS_BASE_PATH,
                              analyzed_folders |-> <<"src">>,
                              excluded_folders |-> <<>>,
                              total_files_analyzed |-> 1],
                          files |-> <<[file_path |-> PathAb,
                                       relative_path |-> Tail(PathAb),
                                       dependencies |-> call.ret.dependencies,
                                       error |-> None,
                                       total_dependencies |->
                                           Len(call.ret.dependencies)]>>],
                mtime |-> now]
    /\ call' = [call EXCEPT !.op = "analyze_branch"]
    /\ UNCHANGED <<now, cfg, cache, access_times, analysis_result, last_loaded_time,
                   metrics>>

NextEmit ==
    \/ \E ast_string \in AstStrings, source_code \in SourceCodes :
          EmitDependencies(ast_string, source_code)
    \/ WriteScanDocument
    \/ LoadAnalysisResult

SpecEmit == InitHandler /\ [][NextEmit]_vars

\* C30: every dependency record the analyzer emits has a type of the
\* enumeration, a line that is not negative and a context that is not blank,
\* so the repository's load of a document the scan wrote never fails with
\* RepositoryError
C30_EmittedDocumentsLoad ==
    /\ call.op \in {"analyze_file", "analyze_branch"} =>
          \A i \in 1..Len(call.ret.dependencies) :
             LET dep == call.ret.dependencies[i]
             IN /\ dep.type \in DependencyType
                /\ dep.line >= 0
                /\ strip(dep.context) # <<>>
    /\ call.op = "load_analysis_result" => call.outcome # "RepositoryError"

\* the load of a document whose dependency has a blank context
C30_LoadOfEmittedDocumentFails ==
    /\ call.op = "load_analysis_result"
    /\ call.outcome = "RepositoryError"
    /\ Len(disk.data.files[1].dependencies) = 1

====
